---- MODULE Spec2Model ----
(***************************************************************************)
(* A model of DJITelloPy (the ericniso fork): the per-device command       *)
(* engine and telemetry parser of tello.py, the datagram demultiplexer of  *)
(* communication.py and the swarm orchestrator of swarm.py (worker         *)
(* threads, the two barriers, the health monitor and the reconnect         *)
(* supervisor).                                                            *)
(*                                                                         *)
(* Texts are sequences of one-character strings, so that decoding,         *)
(* stripping, splitting, lower-casing and substring search are computed    *)
(* as the code computes them.                                              *)
(***************************************************************************)
EXTENDS Integers, Sequences, FiniteSets, TLC

(***************************************************************************)
(* Bounds of the model.                                                    *)
(***************************************************************************)
\* largest retry_count a Tello is constructed with
MaxRetry == 3
\* replies the control socket delivers to the engine's mailbox in one run
MaxDeliver == 3
\* send_control_command calls made in one run
MaxCtlCalls == 2
\* devices of the swarm
NumTellos == 2
\* sync() calls a swarm function makes on one device
MaxSync == 2
\* parallel() and sequential() calls made in one run
MaxParCalls == 2
\* datagrams the control socket receives in one run of the demultiplexer
MaxRecv == 3
\* send_read_command calls made in one run
MaxReadCalls == 3
\* local ports of the video relay
NumVideoPorts == 1
\* destinations a caller of the video relay registers
NumDests == 2
\* longest list of destinations of one port
MaxDestLen == 2
\* video datagrams received in one run
MaxVideo == 2

\* the fields of a telemetry line given to parse_state
MaxFields == 3

\* the calls of send_command_without_return and of what is built on it
MaxFire == 3

\* add_udp_control_handler and add_udp_state_handler calls made after the
\* swarm was constructed
MaxRegister == 2

\* datagrams the callers of one device transmit to it in one run
MaxTransmit == 3

(***************************************************************************)
(* Program constants.                                                      *)
(***************************************************************************)
\* Tello.RETRY_COUNT
RETRY_COUNT == 3

\* the clock ticks every 25 milliseconds: 0.1 seconds are 4 ticks
TIME_BTW_COMMANDS == 4

\* 7 seconds are 280 ticks
RESPONSE_TIMEOUT == 280

(***************************************************************************)
(* Text helpers: str.lower, `in`, str.rstrip, str.strip, str.split,        *)
(* bytes.decode, int().                                                    *)
(***************************************************************************)
LowerChar(c) ==
  CASE c = "O" -> "o"
    [] c = "K" -> "k"
    [] c = "A" -> "a"
    [] c = "D" -> "d"
    [] OTHER -> c

Lower(s) == [k \in 1..Len(s) |-> LowerChar(s[k])]

Contains(s, sub) ==
  \E k \in 1..(Len(s) - Len(sub) + 1) : SubSeq(s, k, k + Len(sub) - 1) = sub

RECURSIVE RStrip(_, _)
RStrip(s, chars) ==
  IF s # <<>> /\ s[Len(s)] \in chars
    THEN RStrip(SubSeq(s, 1, Len(s) - 1), chars)
    ELSE s

RECURSIVE LStrip(_, _)
LStrip(s, chars) ==
  IF s # <<>> /\ s[1] \in chars THEN LStrip(Tail(s), chars) ELSE s

Whitespace == {" ", "\t", "\r", "\n"}

Strip(s) == LStrip(RStrip(s, Whitespace), Whitespace)

\* str.split(sep) for a one-character separator: the pieces between the
\* separators, empty pieces included
RECURSIVE Split(_, _)
Split(s, sep) ==
  IF \A k \in 1..Len(s) : s[k] # sep
    THEN <<s>>
    ELSE LET k == CHOOSE j \in 1..Len(s) :
                    s[j] = sep /\ \A m \in 1..(j - 1) : s[m] # sep
         IN  <<SubSeq(s, 1, k - 1)>> \o Split(SubSeq(s, k + 1, Len(s)), sep)

Digits == {"0", "1", "2", "3", "4", "5", "6", "7", "8", "9"}

DigitValue(c) ==
  CASE c = "0" -> 0 [] c = "1" -> 1 [] c = "2" -> 2 [] c = "3" -> 3
    [] c = "4" -> 4 [] c = "5" -> 5 [] c = "6" -> 6 [] c = "7" -> 7
    [] c = "8" -> 8 [] c = "9" -> 9

RECURSIVE DigitsValue(_)
DigitsValue(s) ==
  IF s = <<>> THEN 0
  ELSE 10 * DigitsValue(SubSeq(s, 1, Len(s) - 1)) + DigitValue(s[Len(s)])

AllDigits(s) == s # <<>> /\ \A k \in 1..Len(s) : s[k] \in Digits

\* the texts int() accepts: an optional sign and decimal digits, surrounded
\* by optional whitespace
IsIntText(text) ==
  LET t == Strip(text)
  IN  IF t # <<>> /\ t[1] \in {"+", "-"} THEN AllDigits(Tail(t)) ELSE AllDigits(t)

\* an int() that drops the sign
IntValueUnsigned(text) ==
  LET t == Strip(text)
  IN  IF t[1] \in {"+", "-"} THEN DigitsValue(Tail(t)) ELSE DigitsValue(t)

IntValue(text) ==
  LET t == Strip(text)
  IN  IF t[1] = "-" THEN 0 - DigitsValue(Tail(t))
      ELSE IF t[1] = "+" THEN DigitsValue(Tail(t))
      ELSE DigitsValue(t)

\* the texts float() accepts, as far as the state protocol sends them: an
\* optional sign, digits, and optionally a point and more digits
IsFloatText(text) ==
  LET t == Strip(text)
      u == IF t # <<>> /\ t[1] \in {"+", "-"} THEN Tail(t) ELSE t
      p == Split(u, ".")
  IN  \/ Len(p) = 1 /\ AllDigits(p[1])
      \/ Len(p) = 2 /\ (p[1] = <<>> \/ AllDigits(p[1]))
                    /\ (p[2] = <<>> \/ AllDigits(p[2]))
                    /\ (p[1] # <<>> \/ p[2] # <<>>)

\* a float value, kept as the pair of its sign-carrying text
FloatValue(text) == <<"float", Strip(text)>>

\* a byte that is not valid UTF-8 (nor ASCII)
BadByte == "0xFF"

Decodable(data) == \A k \in 1..Len(data) : data[k] # BadByte

OkText == <<"o", "k">>

(***************************************************************************)
(* The texts of tello.py.                                                  *)
(***************************************************************************)
MaxRetriesText ==
  <<"m", "a", "x", " ", "r", "e", "t", "r", "i", "e", "s", " ",
    "e", "x", "c", "e", "e", "d", "e", "d">>

DecodeErrorText ==
  <<"r", "e", "s", "p", "o", "n", "s", "e", " ", "d", "e", "c", "o", "d", "e",
    " ", "e", "r", "r", "o", "r">>

\* "Aborting command '{}'. Did not receive a response after {} seconds"
AbortMessage(cmd) ==
  <<"A", "b", "o", "r", "t", "i", "n", "g", " ", "c", "o", "m", "m", "a", "n",
    "d", " ", "'">>
  \o cmd \o
  <<"'", ".", " ", "D", "i", "d", " ", "n", "o", "t", " ", "r", "e", "c", "e",
    "i", "v", "e", " ", "a", " ", "r", "e", "s", "p", "o", "n", "s", "e", " ",
    "a", "f", "t", "e", "r", " ", "7", " ", "s", "e", "c", "o", "n", "d", "s">>

\* the control commands a caller sends: 'land' and 'ap ok p' (connect_to_wifi
\* with the ssid 'ok')
Commands == { <<"l", "a", "n", "d">>, <<"a", "p", " ", "o", "k", " ", "p">> }

\* the payloads a drone's replies carry: 'ok', 'OK\r\n', 'error', and bytes
\* that are not UTF-8
Payloads ==
  { <<"o", "k">>, <<"O", "K", "\r", "\n">>, <<"e", "r", "r", "o", "r">>,
    <<BadByte, "o", "k">> }

\* the lines a drone sends on the state port: 'ok' and 'bat:88;'
StateLines == { <<"o", "k">>, <<"b", "a", "t", ":", "8", "8", ";">> }

(***************************************************************************)
(* The devices.  Device d has the source IP d; one more IP belongs to no   *)
(* device of the swarm.                                                    *)
(***************************************************************************)
Tellos == 1..NumTellos

Ips == 1..(NumTellos + 1)

\* Tello.address[0]
IpOf(d) == d

\* the device whose command engine is followed step by step
Dev == 1

(***************************************************************************)
(* State.                                                                  *)
(***************************************************************************)
VARIABLES
  \* every Tello
  responses,     \* responses_state_dict['responses'], the mailbox, per device
  state,         \* responses_state_dict['state'], the telemetry, per device
  \* the command engine of device Dev
  retry_count,   \* Tello.retry_count
  ctlPc,         \* where send_control_command stands
  command,       \* its command argument
  attempt,       \* its loop variable i
  response,      \* its local variable response
  ctlResult,     \* "none", "true" (returned True) or "raised"
  tries,         \* the attempt count the raised TelloException reports
  sent,          \* datagrams transmitted during the current call
  delivered,     \* replies the control socket has delivered so far
  owed,          \* transmitted commands the drone has not answered (yet)
  okDuring,      \* a reply containing 'ok' was delivered during an attempt
  ctlCalls,      \* calls of send_control_command made so far
  \* TelloCommunication
  udp_control_handlers, \* source IP -> the device whose receiver is registered
  received,      \* the datagrams the control socket received, in order
  \* TelloSwarm: workers and barriers
  funcQueues,    \* one queue of swarm functions per worker
  funcBarrier,   \* [count, state] of the threading.Barrier funcBarrier
  barrier,       \* the same of barrier, the one sync() waits at
  wPc,           \* where each worker thread stands
  wFn,           \* the func a worker took from its queue
  wLeft,         \* the sync() calls the running func has still to make
  parPc,         \* where the caller of parallel() stands
  parFn,         \* the func of the current parallel() call
  putIdx,        \* the queue parallel() puts func into next
  parCalls,      \* parallel() and sequential() calls made so far
  parReturned,   \* parallel() calls that have returned
  wDone,         \* func invocations that have returned, per worker
  syncIn,        \* sync() calls entered in the current run, per worker
  syncOut,       \* sync() calls released in the current run, per worker
  seqPc,         \* where the caller of sequential() stands
  seqIdx,        \* the index its for loop reads next
  seqTello,      \* the device func is running on
  \* TelloSwarm: membership
  connected_tellos,   \* the list connected_tellos
  unreachable_tellos, \* the list unreachable_tellos
  monPc,         \* where _check_reachable_tellos stands
  monIdx,        \* the index its list iterator reads next
  monTello,      \* its loop variable tello
  monFailing,    \* devices connected and without telemetry all through the pass
  recPc,         \* where _try_tello_reconnect stands
  recIdx,        \* the index its list iterator reads next
  recTello,      \* its loop variable tello
  \* Tello: send_read_command
  readPc,        \* where send_read_command stands
  readCmd,       \* its command argument
  readSent,      \* datagrams transmitted during the current call
  readReply,     \* the datagram it popped from the mailbox, if any
  readResponse,  \* its local variable response
  readResult,    \* "none", "returned" or "raised"
  readCalls,     \* calls of send_read_command made so far
  \* Tello: flags and end()
  is_flying,     \* Tello.is_flying
  stream_on,     \* Tello.stream_on
  endPc,         \* where end() stands
  endResult,     \* "none", "returned" or "raised"
  \* TelloCommunication: the video relay
  video_stream_host_destination,      \* local port -> list of destinations
  video_stream_multicast_destination, \* local port -> list of destinations
  hostRegistered,      \* local port -> destinations added and not removed
  multicastRegistered, \* the same for the multicast destinations
  videoCount,    \* video datagrams received so far
  videoSent,     \* what the relay sent for the last video datagram
  \* TelloCommunication and Tello: the state socket
  udp_state_handlers, \* source IP -> the device whose receiver is registered
  stateLoop,     \* where _receive_state_data stands
  lastLine,      \* the last state datagram received from each device's IP
  lastGood,      \* the last of them that was ASCII, per device
  rxRaised,      \* the handler has raised on a datagram of the device
  getKey,        \* the key of the last get_state_field call
  getResult,     \* what that call returned, or that it raised
  \* TelloSwarm: __len__ and __iter__
  lenResult,     \* what the last len(swarm) returned
  iterResult,    \* what the last iteration over the swarm yielded
  \* TelloSwarm: __getattr__
  invoked,       \* device -> the operations invoked on it, with their arguments
  \* Tello.parse_state called on a line
  parsePc,       \* whether parse_state has returned
  parseLine,     \* its argument
  parseResult,   \* the dictionary it returned
  \* Tello.send_command_with_return and the clock
  pacePc,        \* where send_command_with_return stands
  sinceReceived, \* time.time() - self.last_received_command_timestamp
  sleepLeft,     \* what is left of time.sleep(diff)
  waited,        \* time.time() - timestamp in the poll loop
  paceDone,      \* commands whose reply was received so far
  sentAfter,     \* sinceReceived when the last command was transmitted
  \* Tello.send_command_without_return and the operations built on it
  rcElapsed,     \* time.time() - self.last_rc_control_timestamp is above
                 \* TIME_BTW_RC_CONTROL_COMMANDS
  fired,         \* the datagrams these operations transmitted
  fireCalls,     \* the calls of these operations so far
  fireOp,        \* the operation called last
  \* TelloSwarm: the callback of the user
  tello_connected_handler, \* the callback given to the swarm, or None
  handlerOf,     \* device -> the callback set_tello_connected_handler gave it
  handlerCalls,  \* the devices the callback was invoked for, in order
  \* TelloCommunication: add_udp_control_handler and add_udp_state_handler
  registrations, \* the calls made after construction: <<socket, ip, fn>>
  \* Tello: which command a reply answers
  corrPc,        \* where the caller of send_command_with_return stands
  transmitted,   \* the datagrams transmitted to the device so far
  unanswered,    \* the numbers of those the drone has not answered (yet)
  answers,       \* for each mailbox entry, the number of the datagram it answers
  returned,      \* <<n, m>>: the call that transmitted n returned the reply to m
  \* Tello: two threads in send_command_with_return
  callPc,        \* where each of the two threads stands
  callGot,       \* what its responses.pop(0) gave, or that it raised
  taken,         \* the replies each thread took, by their number of arrival
  \* the drones
  silent,        \* the devices that have stopped sending telemetry for good
  \* TelloSwarm: sync(timeout)
  timedOutAt,    \* the parallel() call during which a sync timed out, 0 if none
  syncErrAt      \* per worker, the last parallel() call during which its
                 \* sync raised BrokenBarrierError, 0 if none

teleVars == <<state>>

engineVars ==
  <<retry_count, ctlPc, command, attempt, response, ctlResult, tries, sent,
    delivered, owed, okDuring, ctlCalls>>

hubVars == <<udp_control_handlers, received>>

parVars ==
  <<funcQueues, funcBarrier, barrier, wPc, wFn, wLeft, parPc, parFn, putIdx,
    parCalls, parReturned, wDone, syncIn, syncOut>>

seqVars == <<seqPc, seqIdx, seqTello>>

memberVars ==
  <<connected_tellos, unreachable_tellos, monPc, monIdx, monTello, monFailing,
    recPc, recIdx, recTello>>

readVars ==
  <<readPc, readCmd, readSent, readReply, readResponse, readResult, readCalls>>

lifeVars == <<is_flying, stream_on, endPc, endResult>>

videoVars ==
  <<video_stream_host_destination, video_stream_multicast_destination,
    hostRegistered, multicastRegistered, videoCount, videoSent>>

rxVars ==
  <<udp_state_handlers, stateLoop, lastLine, lastGood, rxRaised, getKey,
    getResult>>

viewVars == <<lenResult, iterResult>>

fanVars == <<invoked>>

parseVars == <<parsePc, parseLine, parseResult>>

paceVars == <<pacePc, sinceReceived, sleepLeft, waited, paceDone, sentAfter>>

fireVars == <<rcElapsed, fired, fireCalls, fireOp>>

handlerVars == <<tello_connected_handler, handlerOf, handlerCalls>>

regVars == <<registrations>>

corrVars == <<corrPc, transmitted, unanswered, answers, returned>>

raceVars == <<callPc, callGot, taken>>

silentVars == <<silent>>

syncVars == <<timedOutAt, syncErrAt>>

lateVars == <<regVars, corrVars, raceVars, silentVars, syncVars>>

\* what only the operations of their own section touch
extVars == <<fanVars, parseVars, paceVars, fireVars, handlerVars, lateVars>>

\* what the command engine of send_control_command, the workers and the
\* supervisory threads never touch
restVars == <<readVars, lifeVars, videoVars, rxVars, viewVars, extVars>>

vars ==
  <<responses, teleVars, engineVars, hubVars, parVars, seqVars, memberVars,
    restVars>>

(***************************************************************************)
(* Telemetry: Tello.parse_state and the liveness check.                    *)
(***************************************************************************)
INT_STATE_FIELDS ==
  { <<"m", "i", "d">>,
    <<"x">>,
    <<"y">>,
    <<"z">>,
    <<"p", "i", "t", "c", "h">>,
    <<"r", "o", "l", "l">>,
    <<"y", "a", "w">>,
    <<"v", "g", "x">>,
    <<"v", "g", "y">>,
    <<"v", "g", "z">>,
    <<"t", "e", "m", "p", "l">>,
    <<"t", "e", "m", "p", "h">>,
    <<"t", "o", "f">>,
    <<"h">>,
    <<"b", "a", "t">>,
    <<"t", "i", "m", "e">> }

FLOAT_STATE_FIELDS ==
  { <<"b", "a", "r", "o">>,
    <<"a", "g", "x">>,
    <<"a", "g", "y">>,
    <<"a", "g", "z">> }

EmptyDict == <<>>

\* state_dict[key] = value
DictPut(dict, key, value) ==
  [k \in (DOMAIN dict) \cup {key} |-> IF k = key THEN value ELSE dict[k]]

\* a loop that gives up the whole snapshot at a value it cannot convert
ParseFieldFailsWhole(field, dict) ==
  LET split == Split(field, ":")
  IN  IF Len(split) < 2 THEN dict
      ELSE LET key == split[1]
               value == split[2]
           IN  IF key \in INT_STATE_FIELDS
                 THEN IF IsIntText(value)
                        THEN DictPut(dict, key, IntValue(value)) ELSE EmptyDict
               ELSE IF key \in FLOAT_STATE_FIELDS
                 THEN IF IsFloatText(value)
                        THEN DictPut(dict, key, FloatValue(value)) ELSE EmptyDict
               ELSE DictPut(dict, key, value)

\* one turn of the loop of parse_state over the fields of the line
ParseField(field, dict) ==
  LET split == Split(field, ":")
  IN  IF Len(split) < 2 THEN dict
      ELSE LET key == split[1]
               value == split[2]
           IN  IF key \in INT_STATE_FIELDS
                 THEN IF IsIntText(value)
                        THEN DictPut(dict, key, IntValue(value)) ELSE dict
               ELSE IF key \in FLOAT_STATE_FIELDS
                 THEN IF IsFloatText(value)
                        THEN DictPut(dict, key, FloatValue(value)) ELSE dict
               ELSE DictPut(dict, key, value)

RECURSIVE ParseFields(_, _)
ParseFields(fields, dict) ==
  IF fields = <<>> THEN dict
  ELSE ParseFields(Tail(fields), ParseField(Head(fields), dict))

\* Tello.parse_state
ParseState(line) ==
  LET s == Strip(line)
  IN  IF s = OkText THEN EmptyDict ELSE ParseFields(Split(s, ";"), EmptyDict)

\* Tello.is_unreachable: the telemetry snapshot is empty
IsUnreachable(d) == DOMAIN state[d] = {}

\* a udp_state_receiver that adds the parsed fields to the snapshot
UdpStateReceiverMerge(d, line) ==
  /\ state' = [state EXCEPT ![d] = ParseState(line) @@ @]

\* Tello.udp_state_receiver: a state datagram of the device's own IP replaces
\* the snapshot
UdpStateReceiver(d, line) ==
  /\ state' = [state EXCEPT ![d] = ParseState(line)]


\* the fields of the lines given to parse_state: 'bat:88', 'baro:1.5' and
\* 'sn:0TQ', and three numeric fields whose value is no number of their
\* type, 'mid:x', 'h:1.5' and 'agx:1.5.2'
TelemetryFields ==
  { <<"b", "a", "t", ":", "8", "8">>,
    <<"b", "a", "r", "o", ":", "1", ".", "5">>,
    <<"s", "n", ":", "0", "T", "Q">>,
    <<"m", "i", "d", ":", "x">>,
    <<"h", ":", "1", ".", "5">>,
    <<"a", "g", "x", ":", "1", ".", "5", ".", "2">> }

\* the lines of at most n fields, each field closed by ';'
RECURSIVE FieldLines(_)
FieldLines(n) ==
  IF n = 0 THEN {<<>>}
  ELSE LET shorter == FieldLines(n - 1)
       IN  shorter \cup {l \o f \o <<";">> : l \in shorter, f \in TelemetryFields}

ParseFrame ==
  UNCHANGED <<responses, teleVars, engineVars, hubVars, parVars, seqVars,
              memberVars, readVars, lifeVars, videoVars, rxVars, viewVars,
              fanVars, paceVars, fireVars, handlerVars, lateVars>>

\* parse_state(parseLine) is called and returns
ParseStateCall ==
  /\ parsePc = "todo"
  /\ parseResult' = ParseState(parseLine)
  /\ parsePc' = "done"
  /\ UNCHANGED parseLine
  /\ ParseFrame

NextParse == ParseStateCall
(***************************************************************************)
(* TelloCommunication: the control socket's receive loop.                  *)
(***************************************************************************)
\* a receiver that puts the datagram at the front of the mailbox
ControlReceiverPrepend(d, ip, data, boxes) ==
  IF ip = IpOf(d) THEN [boxes EXCEPT ![d] = <<data>> \o @] ELSE boxes

\* Tello.udp_control_receiver of device d: a datagram of the device's own IP
\* is appended to its mailbox
ControlReceiver(d, ip, data, boxes) ==
  IF ip = IpOf(d) THEN [boxes EXCEPT ![d] = Append(@, data)] ELSE boxes

\* the handler _receive_control_data looks up for a source IP
HandlerOf(ip) == udp_control_handlers[ip]

\* one turn of _receive_control_data: the mailboxes after the datagram
ReceiveControlData(ip, data, boxes) ==
  IF ip \in DOMAIN udp_control_handlers
    THEN ControlReceiver(HandlerOf(ip), ip, data, boxes)
    ELSE boxes

\* the control socket receives a datagram from any source
RecvControl(ip, data) ==
  /\ Len(received) < MaxRecv
  /\ received' = Append(received, <<ip, data>>)
  /\ responses' = ReceiveControlData(ip, data, responses)
  /\ UNCHANGED <<udp_control_handlers, teleVars, engineVars, parVars, seqVars,
                 memberVars, restVars>>

NextHub == \E ip \in Ips, data \in Payloads : RecvControl(ip, data)

(***************************************************************************)
(* The command engine of device Dev: send_control_command,                 *)
(* send_command_with_return and raise_result_error.                        *)
(***************************************************************************)
\* a decoding that gives the empty string for bytes that are not UTF-8
DecodeResponseEmpty(data) ==
  IF Decodable(data) THEN RStrip(data, {"\r", "\n"}) ELSE <<>>

\* bytes.decode('utf-8') followed by rstrip("\r\n"), or the decode-error text
DecodeResponse(data) ==
  IF Decodable(data) THEN RStrip(data, {"\r", "\n"}) ELSE DecodeErrorText

\* 'ok' in response.lower()
IsOk(resp) == Contains(Lower(resp), OkText)

\* the attempts the for loop of send_control_command makes:
\* range(0, self.retry_count)
LoopAttempts(rc) == rc

\* raise_result_error: tries = 1 + self.retry_count
ReportedTries(rc) == 1 + rc

EngineFrame ==
  UNCHANGED <<teleVars, hubVars, parVars, seqVars, memberVars, restVars>>

\* the drone answers a transmitted command at most once, at any later time
\* (or never); the hub hands the reply to the engine's mailbox
DroneReply(data) ==
  /\ delivered < MaxDeliver
  /\ owed > 0
  /\ owed' = owed - 1
  /\ delivered' = delivered + 1
  /\ responses' = ReceiveControlData(IpOf(Dev), data, responses)
  /\ okDuring' = (okDuring \/ (ctlPc = "wait" /\ Decodable(data)
                                 /\ IsOk(DecodeResponse(data))))
  /\ UNCHANGED <<retry_count, ctlPc, command, attempt, response, ctlResult,
                 tries, sent, ctlCalls>>
  /\ EngineFrame

\* send_control_command is called: response = "max retries exceeded"
SendControlCommand(cmd) ==
  /\ ctlPc \in {"idle", "done"}
  /\ ctlCalls < MaxCtlCalls
  /\ ctlCalls' = ctlCalls + 1
  /\ ctlPc' = "for"
  /\ command' = cmd
  /\ attempt' = 0
  /\ response' = MaxRetriesText
  /\ ctlResult' = "none"
  /\ tries' = 0
  /\ sent' = 0
  /\ okDuring' = FALSE
  /\ UNCHANGED <<retry_count, responses, delivered, owed>>
  /\ EngineFrame

\* one more turn of the for loop: send_command_with_return transmits the
\* command and starts polling the mailbox
SendCommandWithReturn ==
  /\ ctlPc = "for"
  /\ attempt < LoopAttempts(retry_count)
  /\ sent' = sent + 1
  /\ owed' = owed + 1
  /\ ctlPc' = "wait"
  /\ UNCHANGED <<retry_count, responses, command, attempt, response,
                 ctlResult, tries, delivered, okDuring, ctlCalls>>
  /\ EngineFrame

\* what send_control_command does with the response of one attempt
AfterAttempt(resp) ==
  /\ response' = resp
  /\ IF IsOk(resp)
       THEN /\ ctlResult' = "true"
            /\ ctlPc' = "done"
            /\ attempt' = attempt
       ELSE /\ ctlResult' = ctlResult
            /\ ctlPc' = "for"
            /\ attempt' = attempt + 1

\* a poll loop that takes the newest reply of the mailbox
ReceiveResponsePopsNewest ==
  /\ ctlPc = "wait"
  /\ responses[Dev] # <<>>
  /\ responses' = [responses EXCEPT ![Dev] = SubSeq(@, 1, Len(@) - 1)]
  /\ AfterAttempt(DecodeResponse(responses[Dev][Len(responses[Dev])]))
  /\ UNCHANGED <<retry_count, command, tries, sent, delivered, owed,
                 okDuring, ctlCalls>>
  /\ EngineFrame

\* the poll loop finds the mailbox non-empty: pop(0), decode, rstrip
ReceiveResponse ==
  /\ ctlPc = "wait"
  /\ responses[Dev] # <<>>
  /\ responses' = [responses EXCEPT ![Dev] = Tail(@)]
  /\ AfterAttempt(DecodeResponse(Head(responses[Dev])))
  /\ UNCHANGED <<retry_count, command, tries, sent, delivered, owed,
                 okDuring, ctlCalls>>
  /\ EngineFrame

\* a poll loop that raises when the timeout has elapsed
ResponseTimeoutRaises ==
  /\ ctlPc = "wait"
  /\ responses[Dev] = <<>>
  /\ ctlResult' = "raised"
  /\ ctlPc' = "done"
  /\ UNCHANGED <<retry_count, responses, command, attempt, response, tries,
                 sent, delivered, owed, okDuring, ctlCalls>>
  /\ EngineFrame

\* the poll loop finds the mailbox empty after the timeout has elapsed
ResponseTimeout ==
  /\ ctlPc = "wait"
  /\ responses[Dev] = <<>>
  /\ AfterAttempt(AbortMessage(command))
  /\ UNCHANGED <<retry_count, responses, command, tries, sent, delivered,
                 owed, okDuring, ctlCalls>>
  /\ EngineFrame

\* the for loop is exhausted: raise_result_error raises TelloException
RaiseResultError ==
  /\ ctlPc = "for"
  /\ attempt >= LoopAttempts(retry_count)
  /\ tries' = ReportedTries(retry_count)
  /\ ctlResult' = "raised"
  /\ ctlPc' = "done"
  /\ UNCHANGED <<retry_count, responses, command, attempt, response, sent,
                 delivered, owed, okDuring, ctlCalls>>
  /\ EngineFrame

NextEngine ==
  \/ \E data \in Payloads : DroneReply(data)
  \/ \E cmd \in Commands : SendControlCommand(cmd)
  \/ SendCommandWithReturn
  \/ ReceiveResponse
  \/ ResponseTimeout
  \/ RaiseResultError

(***************************************************************************)
(* TelloSwarm: the worker threads, parallel() and sync().                  *)
(***************************************************************************)
\* a swarm function, by the number of sync() calls it makes on each device
Funcs == [Tellos -> 0..MaxSync]

NoFunc == <<>>

\* a fan-out barrier that leaves the caller of parallel() out
FuncBarrierPartiesWorkersOnly == NumTellos

\* Barrier(len(tellos) + 1): the N workers and the caller of parallel()
FuncBarrierParties == NumTellos + 1

\* a rendezvous barrier that is one party short
BarrierPartiesOneShort == NumTellos - 1

\* a rendezvous barrier that counts the caller of parallel() as a party
BarrierPartiesWithCaller == NumTellos + 1

\* Barrier(len(tellos)): the N workers
BarrierParties == NumTellos

NewBarrier == [count |-> 0, state |-> "filling"]

\* threading.Barrier._enter: a thread may enter once the barrier has drained
CanEnter(b) == b.state = "filling"

\* the arriving thread completes the party: _release, then its own _exit
Trips(b, parties) == b.count + 1 = parties

\* threading.Barrier.wait up to the point where the thread passes or blocks
Arrive(b, parties) ==
  IF Trips(b, parties)
    THEN [count |-> b.count,
          state |-> IF b.count = 0 THEN "filling" ELSE "draining"]
    ELSE [count |-> b.count + 1, state |-> "filling"]

\* a blocked thread is released (_wait returns) and leaves (_exit)
CanLeave(b) == b.state = "draining"

Leave(b) ==
  [count |-> b.count - 1,
   state |-> IF b.count - 1 = 0 THEN "filling" ELSE "draining"]

ParFrame ==
  UNCHANGED <<responses, teleVars, engineVars, hubVars, seqVars, memberVars,
              restVars>>

\* worker: func = queue.get()
WorkerGet(i) ==
  /\ wPc[i] = "get"
  /\ funcQueues[i] # <<>>
  /\ wFn' = [wFn EXCEPT ![i] = Head(funcQueues[i])]
  /\ funcQueues' = [funcQueues EXCEPT ![i] = Tail(@)]
  /\ wPc' = [wPc EXCEPT ![i] = "entry"]
  /\ UNCHANGED <<funcBarrier, barrier, wLeft, parPc, parFn, putIdx, parCalls,
                 parReturned, wDone, syncIn, syncOut>>
  /\ ParFrame

\* a worker that calls func(i, tello) without the first wait
WorkerEntryNoWait(i) ==
  /\ wPc[i] = "entry"
  /\ wPc' = [wPc EXCEPT ![i] = "run"]
  /\ wLeft' = [wLeft EXCEPT ![i] = wFn[i][i]]
  /\ UNCHANGED <<funcQueues, funcBarrier, barrier, wFn, parPc, parFn, putIdx,
                 parCalls, parReturned, wDone, syncIn, syncOut>>
  /\ ParFrame

\* worker: the first self.funcBarrier.wait(), then func(i, tello) starts
WorkerEntry(i) ==
  /\ \/ /\ wPc[i] = "entry"
        /\ CanEnter(funcBarrier)
        /\ funcBarrier' = Arrive(funcBarrier, FuncBarrierParties)
        /\ wPc' = [wPc EXCEPT ![i] =
                     IF Trips(funcBarrier, FuncBarrierParties)
                       THEN "run" ELSE "entryWait"]
     \/ /\ wPc[i] = "entryWait"
        /\ CanLeave(funcBarrier)
        /\ funcBarrier' = Leave(funcBarrier)
        /\ wPc' = [wPc EXCEPT ![i] = "run"]
  /\ wLeft' = [wLeft EXCEPT ![i] = IF wPc'[i] = "run" THEN wFn[i][i] ELSE @]
  /\ UNCHANGED <<funcQueues, barrier, wFn, parPc, parFn, putIdx, parCalls,
                 parReturned, wDone, syncIn, syncOut>>
  /\ ParFrame

\* inside func: swarm.sync(), i.e. self.barrier.wait(None)
Sync(i) ==
  /\ \/ /\ wPc[i] = "run"
        /\ wLeft[i] > 0
        /\ CanEnter(barrier)
        /\ barrier' = Arrive(barrier, BarrierParties)
        /\ syncIn' = [syncIn EXCEPT ![i] = @ + 1]
        /\ wPc' = [wPc EXCEPT ![i] =
                     IF Trips(barrier, BarrierParties) THEN "run" ELSE "syncWait"]
     \/ /\ wPc[i] = "syncWait"
        /\ CanLeave(barrier)
        /\ barrier' = Leave(barrier)
        /\ syncIn' = syncIn
        /\ wPc' = [wPc EXCEPT ![i] = "run"]
  /\ syncOut' = [syncOut EXCEPT ![i] = IF wPc'[i] = "run" THEN @ + 1 ELSE @]
  /\ wLeft' = [wLeft EXCEPT ![i] = IF wPc'[i] = "run" THEN @ - 1 ELSE @]
  /\ UNCHANGED <<funcQueues, funcBarrier, wFn, parPc, parFn, putIdx, parCalls,
                 parReturned, wDone>>
  /\ ParFrame

\* the cell of a lambda that holds what the lambda closes over
Closure == 0

\* the operations called through __getattr__, with their arguments
Calls == {<<"takeoff", <<>>>>, <<"move_up", <<50>>>>}

\* lambda i, tello: getattr(tello, attr)(*args, **kwargs): it closes over
\* attr and the arguments and never calls sync()
CallAllFunc(attr, args) ==
  [i \in {Closure} \cup Tellos |-> IF i = Closure THEN <<attr, args>> ELSE 0]

IsCallAll(func) == Closure \in DOMAIN func

\* func(i, tello) returns
FuncReturn(i) ==
  /\ wPc[i] = "run"
  /\ wLeft[i] = 0
  /\ ~IsCallAll(wFn[i])
  /\ wPc' = [wPc EXCEPT ![i] = "exit"]
  /\ wDone' = [wDone EXCEPT ![i] = @ + 1]
  /\ UNCHANGED <<funcQueues, funcBarrier, barrier, wFn, wLeft, parPc, parFn,
                 putIdx, parCalls, parReturned, syncIn, syncOut>>
  /\ ParFrame

\* what becomes of a worker whose func(i, tello) raises: nothing catches the
\* exception and the thread ends
AfterRaise == "dead"

\* func(i, tello) raises (a TelloException of a failed command, say)
FuncRaise(i) ==
  /\ wPc[i] = "run"
  /\ wPc' = [wPc EXCEPT ![i] = AfterRaise]
  /\ UNCHANGED <<funcQueues, funcBarrier, barrier, wFn, wLeft, parPc, parFn,
                 putIdx, parCalls, parReturned, wDone, syncIn, syncOut>>
  /\ ParFrame

\* worker: the second self.funcBarrier.wait(), then back to queue.get()
WorkerExit(i) ==
  /\ \/ /\ wPc[i] = "exit"
        /\ CanEnter(funcBarrier)
        /\ funcBarrier' = Arrive(funcBarrier, FuncBarrierParties)
        /\ wPc' = [wPc EXCEPT ![i] =
                     IF Trips(funcBarrier, FuncBarrierParties)
                       THEN "get" ELSE "exitWait"]
     \/ /\ wPc[i] = "exitWait"
        /\ CanLeave(funcBarrier)
        /\ funcBarrier' = Leave(funcBarrier)
        /\ wPc' = [wPc EXCEPT ![i] = "get"]
  /\ UNCHANGED <<funcQueues, barrier, wFn, wLeft, parPc, parFn, putIdx,
                 parCalls, parReturned, wDone, syncIn, syncOut>>
  /\ ParFrame

\* parallel(func) is called
Parallel(func) ==
  /\ parPc = "idle"
  /\ seqPc = "idle"
  /\ parCalls < MaxParCalls
  /\ parCalls' = parCalls + 1
  /\ parFn' = func
  /\ putIdx' = 1
  /\ parPc' = "put"
  /\ syncIn' = [i \in Tellos |-> 0]
  /\ syncOut' = [i \in Tellos |-> 0]
  /\ UNCHANGED <<funcQueues, funcBarrier, barrier, wPc, wFn, wLeft,
                 parReturned, wDone>>
  /\ ParFrame

\* parallel: for queue in self.funcQueues: queue.put(func)
ParallelPut ==
  /\ parPc = "put"
  /\ funcQueues' = [funcQueues EXCEPT ![putIdx] = Append(@, parFn)]
  /\ putIdx' = putIdx + 1
  /\ parPc' = IF putIdx = NumTellos THEN "entry" ELSE "put"
  /\ UNCHANGED <<funcBarrier, barrier, wPc, wFn, wLeft, parFn, parCalls,
                 parReturned, wDone, syncIn, syncOut>>
  /\ ParFrame

\* parallel: the first self.funcBarrier.wait()
ParallelEntry ==
  /\ \/ /\ parPc = "entry"
        /\ CanEnter(funcBarrier)
        /\ funcBarrier' = Arrive(funcBarrier, FuncBarrierParties)
        /\ parPc' = IF Trips(funcBarrier, FuncBarrierParties)
                      THEN "exit" ELSE "entryWait"
     \/ /\ parPc = "entryWait"
        /\ CanLeave(funcBarrier)
        /\ funcBarrier' = Leave(funcBarrier)
        /\ parPc' = "exit"
  /\ UNCHANGED <<funcQueues, barrier, wPc, wFn, wLeft, parFn, putIdx,
                 parCalls, parReturned, wDone, syncIn, syncOut>>
  /\ ParFrame

\* parallel: the second self.funcBarrier.wait(), then parallel returns
ParallelExit ==
  /\ \/ /\ parPc = "exit"
        /\ CanEnter(funcBarrier)
        /\ funcBarrier' = Arrive(funcBarrier, FuncBarrierParties)
        /\ parPc' = IF Trips(funcBarrier, FuncBarrierParties)
                      THEN "idle" ELSE "exitWait"
     \/ /\ parPc = "exitWait"
        /\ CanLeave(funcBarrier)
        /\ funcBarrier' = Leave(funcBarrier)
        /\ parPc' = "idle"
  /\ parReturned' = IF parPc' = "idle" THEN parReturned + 1 ELSE parReturned
  /\ UNCHANGED <<funcQueues, barrier, wPc, wFn, wLeft, parFn, putIdx,
                 parCalls, wDone, syncIn, syncOut>>
  /\ ParFrame

\* sequential(func) is called
Sequential ==
  /\ seqPc = "idle"
  /\ parPc = "idle"
  /\ parCalls < MaxParCalls
  /\ parCalls' = parCalls + 1
  /\ seqPc' = "for"
  /\ seqIdx' = 1
  /\ UNCHANGED <<seqTello, responses, teleVars, engineVars, hubVars,
                 memberVars, restVars>>
  /\ UNCHANGED <<funcQueues, funcBarrier, barrier, wPc, wFn, wLeft, parPc,
                 parFn, putIdx, parReturned, wDone, syncIn, syncOut>>

\* a loop that takes the next device while func is still running
SequentialNextOverlaps ==
  /\ seqPc \in {"for", "func"}
  /\ IF seqIdx <= Len(connected_tellos)
       THEN /\ seqTello' = connected_tellos[seqIdx]
            /\ seqIdx' = seqIdx + 1
            /\ seqPc' = "func"
       ELSE /\ seqTello' = 0
            /\ seqIdx' = 1
            /\ seqPc' = "idle"
  /\ UNCHANGED <<responses, teleVars, engineVars, hubVars, parVars,
                 memberVars, restVars>>

\* sequential: the for loop over enumerate(self.connected_tellos) takes the
\* next device and calls func(i, tello), or ends
SequentialNext ==
  /\ seqPc = "for"
  /\ IF seqIdx <= Len(connected_tellos)
       THEN /\ seqTello' = connected_tellos[seqIdx]
            /\ seqIdx' = seqIdx + 1
            /\ seqPc' = "func"
       ELSE /\ seqTello' = 0
            /\ seqIdx' = 1
            /\ seqPc' = "idle"
  /\ UNCHANGED <<responses, teleVars, engineVars, hubVars, parVars,
                 memberVars, restVars>>

\* sequential: func(i, tello) returns
SequentialFuncReturn ==
  /\ seqPc = "func"
  /\ seqPc' = "for"
  /\ UNCHANGED <<seqIdx, seqTello, responses, teleVars, engineVars, hubVars,
                 parVars, memberVars, restVars>>

\* __getattr__(attr) returns callAll, and callAll(*args, **kwargs) is called
GetAttr(attr, args) == Parallel(CallAllFunc(attr, args))

\* a lambda that leaves the arguments out of the call
CallAllInvokeNoArgs(i) ==
  /\ wPc[i] = "run"
  /\ IsCallAll(wFn[i])
  /\ invoked' = [invoked EXCEPT ![i] = Append(@, <<wFn[i][Closure][1], <<>>>>)]
  /\ wPc' = [wPc EXCEPT ![i] = "call"]
  /\ UNCHANGED <<funcQueues, funcBarrier, barrier, wFn, wLeft, parPc, parFn,
                 putIdx, parCalls, parReturned, wDone, syncIn, syncOut>>
  /\ UNCHANGED <<responses, teleVars, engineVars, hubVars, seqVars, memberVars,
                 readVars, lifeVars, videoVars, rxVars, viewVars, parseVars,
                 paceVars, fireVars, handlerVars, lateVars>>

\* inside the lambda: getattr(tello, attr)(*args, **kwargs) is called on the
\* worker's own device
CallAllInvoke(i) ==
  /\ wPc[i] = "run"
  /\ IsCallAll(wFn[i])
  /\ invoked' = [invoked EXCEPT ![i] = Append(@, wFn[i][Closure])]
  /\ wPc' = [wPc EXCEPT ![i] = "call"]
  /\ UNCHANGED <<funcQueues, funcBarrier, barrier, wFn, wLeft, parPc, parFn,
                 putIdx, parCalls, parReturned, wDone, syncIn, syncOut>>
  /\ UNCHANGED <<responses, teleVars, engineVars, hubVars, seqVars, memberVars,
                 readVars, lifeVars, videoVars, rxVars, viewVars, parseVars,
                 paceVars, fireVars, handlerVars, lateVars>>

\* the operation returns, and with it the lambda
CallAllReturn(i) ==
  /\ wPc[i] = "call"
  /\ wPc' = [wPc EXCEPT ![i] = "exit"]
  /\ wDone' = [wDone EXCEPT ![i] = @ + 1]
  /\ UNCHANGED <<funcQueues, funcBarrier, barrier, wFn, wLeft, parPc, parFn,
                 putIdx, parCalls, parReturned, syncIn, syncOut>>
  /\ ParFrame

\* the operation raises: the worker ends as in FuncRaise
CallAllRaise(i) ==
  /\ wPc[i] = "call"
  /\ wPc' = [wPc EXCEPT ![i] = AfterRaise]
  /\ UNCHANGED <<funcQueues, funcBarrier, barrier, wFn, wLeft, parPc, parFn,
                 putIdx, parCalls, parReturned, wDone, syncIn, syncOut>>
  /\ ParFrame

\* sequential: func(i, tello) raises, and sequential() with it
SequentialFuncRaise ==
  /\ seqPc = "func"
  /\ seqPc' = "idle"
  /\ seqIdx' = 1
  /\ seqTello' = 0
  /\ UNCHANGED <<responses, teleVars, engineVars, hubVars, parVars,
                 memberVars, restVars>>

WorkerStep(i) ==
  \/ WorkerGet(i)
  \/ WorkerEntry(i)
  \/ Sync(i)
  \/ FuncReturn(i)
  \/ WorkerExit(i)

CallerStep ==
  \/ ParallelPut
  \/ ParallelEntry
  \/ ParallelExit

\* the workers and one caller of parallel(), for every swarm function
NextPar ==
  \/ \E func \in Funcs : Parallel(func)
  \/ CallerStep
  \/ \E i \in Tellos : WorkerStep(i)
  \/ \E i \in Tellos : FuncRaise(i)


\* the workers and one caller of operations the swarm does not define
NextFanOut ==
  \/ \E call \in Calls : GetAttr(call[1], call[2])
  \/ CallerStep
  \/ \E i \in Tellos : WorkerGet(i) \/ WorkerEntry(i) \/ WorkerExit(i)
  \/ \E i \in Tellos : CallAllInvoke(i) \/ CallAllReturn(i) \/ CallAllRaise(i)
(***************************************************************************)
(* TelloSwarm: the health monitor and the reconnect supervisor.  Each      *)
(* list operation of the two threads is a step of its own: nothing in      *)
(* swarm.py locks the two lists.                                           *)
(***************************************************************************)
\* list.remove(x): the list without the first occurrence of x
RECURSIVE ListRemove(_, _)
ListRemove(list, x) ==
  IF list = <<>> THEN <<>>
  ELSE IF Head(list) = x THEN Tail(list)
  ELSE <<Head(list)>> \o ListRemove(Tail(list), x)

InList(list, x) == \E k \in 1..Len(list) : list[k] = x

Count(list, x) == Cardinality({k \in 1..Len(list) : list[k] = x})

\* tello_connected_handler = None
NoHandler == "None"

\* a callback of the user
UserHandler == "handler"

\* Tello.set_tello_connected_handler: the device keeps the callback
SetTelloConnectedHandler(handler) == [d \in Tellos |-> handler]

MemberFrame ==
  UNCHANGED <<responses, engineVars, hubVars, parVars, seqVars, restVars>>

\* the state socket delivers a telemetry line of device d
RecvState(d, line) ==
  /\ UdpStateReceiver(d, line)
  /\ monFailing' = {x \in monFailing : x # d \/ DOMAIN ParseState(line) = {}}
  /\ UNCHANGED <<connected_tellos, unreachable_tellos, monPc, monIdx,
                 monTello, recPc, recIdx, recTello>>
  /\ MemberFrame

\* _check_reachable_tellos: a pass starts, for tello in self.connected_tellos
MonitorStart ==
  /\ monPc = "sleep"
  /\ monPc' = "for"
  /\ monIdx' = 1
  /\ monFailing' = {d \in Tellos : InList(connected_tellos, d) /\ IsUnreachable(d)}
  /\ UNCHANGED <<connected_tellos, unreachable_tellos, monTello, recPc,
                 recIdx, recTello, teleVars>>
  /\ MemberFrame

\* the list iterator yields the element at its index, or the pass ends;
\* `if tello.is_unreachable()` decides whether the device is moved
MonitorNext ==
  /\ monPc = "for"
  /\ IF monIdx <= Len(connected_tellos)
       THEN /\ monTello' = connected_tellos[monIdx]
            /\ monIdx' = monIdx + 1
            /\ monPc' = IF IsUnreachable(connected_tellos[monIdx])
                          THEN "remove" ELSE "for"
       ELSE /\ monTello' = 0
            /\ monIdx' = 1
            /\ monPc' = "sleep"
  /\ UNCHANGED <<connected_tellos, unreachable_tellos, monFailing, recPc,
                 recIdx, recTello, teleVars>>
  /\ MemberFrame

\* self.connected_tellos.remove(tello)
MonitorRemove ==
  /\ monPc = "remove"
  /\ connected_tellos' = ListRemove(connected_tellos, monTello)
  /\ monPc' = "append"
  /\ UNCHANGED <<unreachable_tellos, monIdx, monTello, monFailing, recPc,
                 recIdx, recTello, teleVars>>
  /\ MemberFrame

\* self.unreachable_tellos.append(tello)
MonitorAppend ==
  /\ monPc = "append"
  /\ unreachable_tellos' = Append(unreachable_tellos, monTello)
  /\ monPc' = "for"
  /\ UNCHANGED <<connected_tellos, monIdx, monTello, monFailing, recPc,
                 recIdx, recTello, teleVars>>
  /\ MemberFrame

\* _try_tello_reconnect: a pass starts, for tello in self.unreachable_tellos
ReconnectStart ==
  /\ recPc = "sleep"
  /\ recPc' = "for"
  /\ recIdx' = 1
  /\ UNCHANGED <<connected_tellos, unreachable_tellos, monPc, monIdx,
                 monTello, monFailing, recTello, teleVars>>
  /\ MemberFrame

\* the list iterator yields the element at its index and tello.connect() is
\* called, or the pass ends
ReconnectNext ==
  /\ recPc = "for"
  /\ IF recIdx <= Len(unreachable_tellos)
       THEN /\ recTello' = unreachable_tellos[recIdx]
            /\ recIdx' = recIdx + 1
            /\ recPc' = "connect"
       ELSE /\ recTello' = 0
            /\ recIdx' = 1
            /\ recPc' = "sleep"
  /\ UNCHANGED <<connected_tellos, unreachable_tellos, monPc, monIdx,
                 monTello, monFailing, teleVars>>
  /\ MemberFrame

\* tello.connect() returns: 'command' was acknowledged and a state packet
\* has been received; then `if not tello.is_unreachable()` is evaluated
ConnectReturns ==
  /\ recPc = "connect"
  /\ ~IsUnreachable(recTello)
  /\ recPc' = "check"
  /\ UNCHANGED <<connected_tellos, unreachable_tellos, monPc, monIdx,
                 monTello, monFailing, recIdx, recTello, teleVars>>
  /\ MemberFrame

\* tello.connect() raises (the command failed, or no state packet came):
\* the except clause around the for loop ends the pass
ConnectRaises ==
  /\ recPc = "connect"
  /\ recPc' = "sleep"
  /\ recTello' = 0
  /\ recIdx' = 1
  /\ UNCHANGED <<connected_tellos, unreachable_tellos, monPc, monIdx,
                 monTello, monFailing, teleVars>>
  /\ MemberFrame

\* a supervisor that moves the device whatever is_unreachable() says
ReconnectCheckAlwaysMoves ==
  /\ recPc = "check"
  /\ connected_tellos' = Append(connected_tellos, recTello)
  /\ recPc' = "remove"
  /\ UNCHANGED <<unreachable_tellos, monPc, monIdx, monTello, monFailing,
                 recIdx, recTello, teleVars>>
  /\ MemberFrame

\* if not tello.is_unreachable(): self.connected_tellos.append(tello)
ReconnectCheck ==
  /\ recPc = "check"
  /\ IF ~IsUnreachable(recTello)
       THEN /\ connected_tellos' = Append(connected_tellos, recTello)
            /\ recPc' = "remove"
       ELSE /\ connected_tellos' = connected_tellos
            /\ recPc' = "for"
  /\ UNCHANGED <<unreachable_tellos, monPc, monIdx, monTello, monFailing,
                 recIdx, recTello, teleVars>>
  /\ MemberFrame

\* self.unreachable_tellos.remove(tello)
ReconnectRemove ==
  /\ recPc = "remove"
  /\ unreachable_tellos' = ListRemove(unreachable_tellos, recTello)
  /\ recPc' = "for"
  /\ UNCHANGED <<connected_tellos, monPc, monIdx, monTello, monFailing,
                 recIdx, recTello, teleVars>>
  /\ MemberFrame

MonitorStep ==
  \/ MonitorStart
  \/ MonitorNext
  \/ MonitorRemove
  \/ MonitorAppend

ReconnectStep ==
  \/ ReconnectStart
  \/ ReconnectNext
  \/ ConnectReturns
  \/ ConnectRaises
  \/ ReconnectCheck
  \/ ReconnectRemove

\* the two supervisory threads and the telemetry of the drones
NextMember ==
  \/ \E d \in Tellos, line \in StateLines : RecvState(d, line)
  \/ MonitorStep
  \/ ReconnectStep

\* a swarm function that never calls sync()
NoSyncFunc == [i \in Tellos |-> 0]

\* the swarm as a whole: the supervisory threads, the workers, and a caller
\* of parallel() and sequential()
NextSwarm ==
  \/ NextMember
  \/ Parallel(NoSyncFunc)
  \/ CallerStep
  \/ \E i \in Tellos : WorkerGet(i) \/ WorkerEntry(i) \/ FuncReturn(i) \/ WorkerExit(i)
  \/ Sequential
  \/ SequentialNext
  \/ SequentialFuncReturn


\* a caller of sequential() while the health monitor maintains the list
NextSequential ==
  \/ Sequential
  \/ SequentialNext
  \/ SequentialFuncReturn
  \/ SequentialFuncRaise
  \/ \E d \in Tellos, line \in StateLines : RecvState(d, line)
  \/ MonitorStep

(***************************************************************************)
(* The read commands of device Dev: send_read_command, which makes one     *)
(* call of send_command_with_return and looks for an error marker in what  *)
(* it returns.                                                             *)
(***************************************************************************)
\* no datagram was popped from the mailbox
NoReply == <<"none">>

\* the read command a caller sends: 'sn?' (query_serial_number)
ReadCommands == { <<"s", "n", "?">> }

\* the words send_read_command looks for: 'error', 'ERROR', 'False'
ErrorMarkers ==
  { <<"e", "r", "r", "o", "r">>, <<"E", "R", "R", "O", "R">>,
    <<"F", "a", "l", "s", "e">> }

\* any(word in response for word in ('error', 'ERROR', 'False'))
HasErrorMarker(resp) == \E word \in ErrorMarkers : Contains(resp, word)

ReadFrame ==
  UNCHANGED <<teleVars, hubVars, parVars, seqVars, memberVars, lifeVars,
              videoVars, rxVars, viewVars, extVars, retry_count, ctlPc, command,
              attempt, response, ctlResult, tries, sent, delivered, okDuring,
              ctlCalls>>

\* send_read_command is called
SendReadCommand(cmd) ==
  /\ readPc \in {"idle", "done"}
  /\ readCalls < MaxReadCalls
  /\ readCalls' = readCalls + 1
  /\ readPc' = "send"
  /\ readCmd' = cmd
  /\ readSent' = 0
  /\ readReply' = NoReply
  /\ readResponse' = <<>>
  /\ readResult' = "none"
  /\ UNCHANGED <<responses, owed>>
  /\ ReadFrame

\* send_command_with_return transmits the command and starts polling
ReadTransmit ==
  /\ readPc = "send"
  /\ readSent' = readSent + 1
  /\ owed' = owed + 1
  /\ readPc' = "wait"
  /\ UNCHANGED <<responses, readCmd, readReply, readResponse, readResult,
                 readCalls>>
  /\ ReadFrame

\* a send_read_command that sends the command again after an error marker
ReadAfterRetries(resp) ==
  /\ readResponse' = resp
  /\ IF HasErrorMarker(resp)
       THEN /\ readResult' = readResult
            /\ readPc' = "send"
       ELSE /\ readResult' = "returned"
            /\ readPc' = "done"

\* what send_read_command does with the response: raise_result_error when
\* it holds an error marker, return it otherwise
ReadAfter(resp) ==
  /\ readResponse' = resp
  /\ readResult' = IF HasErrorMarker(resp) THEN "raised" ELSE "returned"
  /\ readPc' = "done"

\* the poll loop finds the mailbox non-empty: pop(0), decode, rstrip
ReadReceive ==
  /\ readPc = "wait"
  /\ responses[Dev] # <<>>
  /\ responses' = [responses EXCEPT ![Dev] = Tail(@)]
  /\ readReply' = Head(responses[Dev])
  /\ ReadAfter(DecodeResponse(Head(responses[Dev])))
  /\ UNCHANGED <<owed, readCmd, readSent, readCalls>>
  /\ ReadFrame

\* the poll loop finds the mailbox empty after the timeout has elapsed
ReadTimeout ==
  /\ readPc = "wait"
  /\ responses[Dev] = <<>>
  /\ ReadAfter(AbortMessage(readCmd))
  /\ UNCHANGED <<responses, owed, readCmd, readSent, readReply, readCalls>>
  /\ ReadFrame

NextRead ==
  \/ \E data \in Payloads : DroneReply(data)
  \/ \E cmd \in ReadCommands : SendReadCommand(cmd)
  \/ ReadTransmit
  \/ ReadReceive
  \/ ReadTimeout

(***************************************************************************)
(* Teardown of device Dev: end(), which lands when is_flying and stops the *)
(* stream when stream_on, through send_control_command, inside             *)
(* try ... except TelloException.                                          *)
(***************************************************************************)
\* land(): self.send_control_command("land")
LandText == <<"l", "a", "n", "d">>

\* streamoff(): self.send_control_command("streamoff")
StreamoffText == <<"s", "t", "r", "e", "a", "m", "o", "f", "f">>

\* send_control_command(cmd) is entered
CallSendControlCommand(cmd) ==
  /\ ctlCalls' = ctlCalls + 1
  /\ ctlPc' = "for"
  /\ command' = cmd
  /\ attempt' = 0
  /\ response' = MaxRetriesText
  /\ ctlResult' = "none"
  /\ tries' = 0
  /\ sent' = 0
  /\ okDuring' = FALSE

\* end() is left without another command
NoControlCommand ==
  UNCHANGED <<ctlCalls, ctlPc, command, attempt, response, ctlResult, tries,
              sent, okDuring>>

LifeFrame ==
  UNCHANGED <<teleVars, hubVars, parVars, seqVars, memberVars, readVars,
              videoVars, rxVars, viewVars, extVars, retry_count, responses,
              delivered,
              owed>>

\* self.send_command_fn(command, self.address) raises: the function was
\* never set (None is not callable) or the socket refuses the datagram.
\* Neither send_command_with_return nor send_control_command catches it.
TransmitFails ==
  /\ ctlPc = "for"
  /\ attempt < LoopAttempts(retry_count)
  /\ ctlResult' = "error"
  /\ ctlPc' = "done"
  /\ UNCHANGED <<retry_count, responses, command, attempt, response, tries,
                 sent, delivered, owed, okDuring, ctlCalls>>
  /\ EngineFrame

\* what end() does once land() is behind it (or was not needed):
\* if self.stream_on: self.streamoff()
EndStreamoffOrReturn ==
  IF stream_on
    THEN /\ CallSendControlCommand(StreamoffText)
         /\ endPc' = "streamoff"
         /\ endResult' = endResult
    ELSE /\ NoControlCommand
         /\ endPc' = "done"
         /\ endResult' = "returned"

\* how a send_control_command that did not return True leaves end():
\* TelloException is caught and passed, anything else goes to the caller
EndAfterFailure ==
  /\ NoControlCommand
  /\ endPc' = "done"
  /\ endResult' = IF ctlResult = "raised" THEN "returned" ELSE "raised"

\* end() is called: if self.is_flying: self.land()
End ==
  /\ endPc = "idle"
  /\ ctlPc \in {"idle", "done"}
  /\ IF is_flying
       THEN /\ CallSendControlCommand(LandText)
            /\ endPc' = "land"
            /\ endResult' = endResult
       ELSE EndStreamoffOrReturn
  /\ UNCHANGED <<is_flying, stream_on>>
  /\ LifeFrame

\* send_control_command("land") is over
EndAfterLand ==
  /\ endPc = "land"
  /\ ctlPc = "done"
  /\ IF ctlResult = "true"
       THEN /\ is_flying' = FALSE
            /\ EndStreamoffOrReturn
       ELSE /\ is_flying' = is_flying
            /\ EndAfterFailure
  /\ stream_on' = stream_on
  /\ LifeFrame

\* send_control_command("streamoff") is over
EndAfterStreamoff ==
  /\ endPc = "streamoff"
  /\ ctlPc = "done"
  /\ IF ctlResult = "true"
       THEN /\ stream_on' = FALSE
            /\ NoControlCommand
            /\ endPc' = "done"
            /\ endResult' = "returned"
       ELSE /\ stream_on' = stream_on
            /\ EndAfterFailure
  /\ is_flying' = is_flying
  /\ LifeFrame

NextLifecycle ==
  \/ End
  \/ EndAfterLand
  \/ EndAfterStreamoff
  \/ SendCommandWithReturn
  \/ TransmitFails
  \/ ReceiveResponse
  \/ ResponseTimeout
  \/ RaiseResultError
  \/ \E data \in Payloads : DroneReply(data)

(***************************************************************************)
(* TelloCommunication: the video relay.  A destination is a pair (ip,      *)
(* port), here a number; each table maps a local port to the list of its   *)
(* destinations.                                                           *)
(***************************************************************************)
\* the local ports a relay socket is bound to
VideoPorts == 1..NumVideoPorts

\* the destinations a caller registers
Dests == 1..NumDests

\* the payloads of the video datagrams
VideoPayloads == { <<"a">>, <<"b">> }

\* TelloCommunication(forward_video_stream=True)
forward_video_stream == TRUE

\* the destinations a table holds for a port
DestList(table, port) == IF port \in DOMAIN table THEN table[port] ELSE <<>>

\* if local_port not in table: table[local_port] = []
\* table[local_port].append(dest)
TableAdd(table, port, dest) ==
  DictPut(table, port, Append(DestList(table, port), dest))

\* table[local_port].remove(dest), which takes the first occurrence out and
\* raises ValueError, the table being left alone, when there is none
TableRemove(table, port, dest) ==
  IF port \in DOMAIN table
    THEN [table EXCEPT ![port] = ListRemove(@, dest)]
    ELSE table

\* the datagrams one loop over a table's destinations sends
Forwarded(table, port, data, via) ==
  [k \in 1..Len(DestList(table, port)) |->
     [to |-> DestList(table, port)[k], via |-> via, data |-> data]]

VideoFrame ==
  UNCHANGED <<responses, teleVars, engineVars, hubVars, parVars, seqVars,
              memberVars, readVars, lifeVars, rxVars, viewVars, extVars>>

\* add_video_stream_host_destination
AddHostDestination(port, dest) ==
  /\ forward_video_stream
  /\ Len(DestList(video_stream_host_destination, port)) < MaxDestLen
  /\ video_stream_host_destination' =
       TableAdd(video_stream_host_destination, port, dest)
  /\ hostRegistered' = [hostRegistered EXCEPT ![port] = @ \cup {dest}]
  /\ UNCHANGED <<video_stream_multicast_destination, multicastRegistered,
                 videoCount, videoSent>>
  /\ VideoFrame

\* add_video_stream_multicast_destination
AddMulticastDestination(port, dest) ==
  /\ forward_video_stream
  /\ Len(DestList(video_stream_multicast_destination, port)) < MaxDestLen
  /\ video_stream_multicast_destination' =
       TableAdd(video_stream_multicast_destination, port, dest)
  /\ multicastRegistered' = [multicastRegistered EXCEPT ![port] = @ \cup {dest}]
  /\ UNCHANGED <<video_stream_host_destination, hostRegistered, videoCount,
                 videoSent>>
  /\ VideoFrame

\* remove_video_stream_host_destination
RemoveHostDestination(port, dest) ==
  /\ forward_video_stream
  /\ video_stream_host_destination' =
       TableRemove(video_stream_host_destination, port, dest)
  /\ hostRegistered' = [hostRegistered EXCEPT ![port] = @ \ {dest}]
  /\ UNCHANGED <<video_stream_multicast_destination, multicastRegistered,
                 videoCount, videoSent>>
  /\ VideoFrame

\* remove_video_stream_multicast_destination
RemoveMulticastDestination(port, dest) ==
  /\ forward_video_stream
  /\ video_stream_multicast_destination' =
       TableRemove(video_stream_multicast_destination, port, dest)
  /\ multicastRegistered' = [multicastRegistered EXCEPT ![port] = @ \ {dest}]
  /\ UNCHANGED <<video_stream_host_destination, hostRegistered, videoCount,
                 videoSent>>
  /\ VideoFrame

\* one turn of _receive_video_stream_data(port): the datagram is sent to
\* the host destinations of the port, then to its multicast destinations
ReceiveVideoStreamData(port, data) ==
  /\ forward_video_stream
  /\ videoCount < MaxVideo
  /\ videoCount' = videoCount + 1
  /\ videoSent' =
       [port |-> port, data |-> data,
        sends |-> Forwarded(video_stream_host_destination, port, data, "host")
                  \o Forwarded(video_stream_multicast_destination, port, data,
                               "multicast")]
  /\ UNCHANGED <<video_stream_host_destination,
                 video_stream_multicast_destination, hostRegistered,
                 multicastRegistered>>
  /\ VideoFrame

NextVideo ==
  \/ \E port \in VideoPorts, dest \in Dests : AddHostDestination(port, dest)
  \/ \E port \in VideoPorts, dest \in Dests : AddMulticastDestination(port, dest)
  \/ \E port \in VideoPorts, dest \in Dests : RemoveHostDestination(port, dest)
  \/ \E port \in VideoPorts, dest \in Dests : RemoveMulticastDestination(port, dest)
  \/ \E port \in VideoPorts, data \in VideoPayloads :
       ReceiveVideoStreamData(port, data)

(***************************************************************************)
(* The state socket: _receive_state_data, which hands each datagram to the *)
(* udp_state_receiver registered for its source IP, and the accessor       *)
(* get_state_field.                                                        *)
(***************************************************************************)
\* no state datagram so far
NoLine == <<"none">>

\* 'pitch:10;roll:-3;bat:88;'
PitchLine ==
  <<"p", "i", "t", "c", "h", ":", "1", "0", ";", "r", "o", "l", "l", ":",
    "-", "3", ";", "b", "a", "t", ":", "8", "8", ";">>

\* 'baro:1.5;mid:x;sn:0TQ;' : a float field, an integer field that holds no
\* number, and a field without a converter
BaroLine ==
  <<"b", "a", "r", "o", ":", "1", ".", "5", ";", "m", "i", "d", ":", "x",
    ";", "s", "n", ":", "0", "T", "Q", ";">>

\* the datagrams a drone sends on the state port, one of them not ASCII
TelemetryLines == StateLines \cup { PitchLine, BaroLine, <<BadByte>> }

\* the keys a caller asks get_state_field for
StateKeys ==
  { <<"b", "a", "t">>, <<"p", "i", "t", "c", "h">>, <<"b", "a", "r", "o">> }

\* data.decode('ASCII') does not raise
AsciiDecodable(data) == Decodable(data)

\* get_state_field was not called yet
NotCalled == <<"none">>

\* get_state_field raised TelloException
RaisedTelloException == <<"TelloException">>

RxFrame ==
  UNCHANGED <<responses, engineVars, hubVars, parVars, seqVars, readVars,
              lifeVars, videoVars, viewVars, extVars, connected_tellos,
              unreachable_tellos, monPc, monIdx, monTello, recPc, recIdx,
              recTello>>

\* what _receive_state_data and the handler do with a datagram of device d
\* while the loop runs: the handler replaces the snapshot, or its decode
\* raises and the except clause of the loop takes the exception
HandleStateDatagram(d, data) ==
  IF stateLoop = "recv" /\ AsciiDecodable(data)
    THEN /\ UdpStateReceiver(d, data)
         /\ monFailing' =
              {x \in monFailing : x # d \/ DOMAIN ParseState(data) = {}}
    ELSE UNCHANGED <<state, monFailing>>

\* a receive loop that ends when a handler raises
StateDatagramLoopDies(ip, data) ==
  /\ IF ip \in DOMAIN udp_state_handlers
          /\ ip = IpOf(udp_state_handlers[ip])
       THEN LET d == udp_state_handlers[ip]
            IN  /\ lastLine' = [lastLine EXCEPT ![d] = data]
                /\ lastGood' = IF AsciiDecodable(data)
                                 THEN [lastGood EXCEPT ![d] = data]
                                 ELSE lastGood
                /\ rxRaised' = IF AsciiDecodable(data)
                                 THEN rxRaised
                                 ELSE [rxRaised EXCEPT ![d] = TRUE]
                /\ HandleStateDatagram(d, data)
                /\ stateLoop' = IF AsciiDecodable(data) THEN stateLoop
                                ELSE "dead"
       ELSE UNCHANGED <<lastLine, lastGood, rxRaised, state, monFailing,
                        stateLoop>>
  /\ UNCHANGED <<udp_state_handlers, getKey, getResult>>
  /\ RxFrame

\* the state socket receives a datagram from any source: one turn of
\* _receive_state_data
StateDatagram(ip, data) ==
  /\ IF ip \in DOMAIN udp_state_handlers
          /\ ip = IpOf(udp_state_handlers[ip])
       THEN LET d == udp_state_handlers[ip]
            IN  /\ lastLine' = [lastLine EXCEPT ![d] = data]
                /\ lastGood' = IF AsciiDecodable(data)
                                 THEN [lastGood EXCEPT ![d] = data]
                                 ELSE lastGood
                /\ rxRaised' = IF AsciiDecodable(data)
                                 THEN rxRaised
                                 ELSE [rxRaised EXCEPT ![d] = TRUE]
                /\ HandleStateDatagram(d, data)
       ELSE UNCHANGED <<lastLine, lastGood, rxRaised, state, monFailing>>
  /\ stateLoop' = stateLoop
  /\ UNCHANGED <<udp_state_handlers, getKey, getResult>>
  /\ RxFrame

\* get_state_field(key) on device Dev
GetStateField(key) ==
  /\ getKey' = key
  /\ getResult' = IF key \in DOMAIN state[Dev]
                    THEN <<"value", state[Dev][key]>>
                    ELSE RaisedTelloException
  /\ UNCHANGED <<state, monFailing, udp_state_handlers, stateLoop, lastLine,
                 lastGood, rxRaised>>
  /\ RxFrame

NextTelemetry ==
  \/ \E ip \in Ips, data \in TelemetryLines : StateDatagram(ip, data)
  \/ \E key \in StateKeys : GetStateField(key)

(***************************************************************************)
(* TelloSwarm as a collection: __len__ and __iter__, read by a caller      *)
(* while the two supervisory threads run.                                  *)
(***************************************************************************)
ViewFrame ==
  UNCHANGED <<responses, teleVars, engineVars, hubVars, parVars, seqVars,
              memberVars, readVars, lifeVars, videoVars, rxVars, extVars>>

\* len(swarm): return len(self.connected_tellos)
SwarmLen ==
  /\ lenResult' = Len(connected_tellos)
  /\ UNCHANGED iterResult
  /\ ViewFrame

\* list(swarm): iter(self.connected_tellos), run to its end at once
SwarmIter ==
  /\ iterResult' = connected_tellos
  /\ UNCHANGED lenResult
  /\ ViewFrame

\* the supervisory threads and a caller of len() and iter()
NextView ==
  \/ NextMember
  \/ SwarmLen
  \/ SwarmIter
(***************************************************************************)
(* Tello.send_command_with_return against the clock: the spacing of the    *)
(* commands of device Dev, the transmission, and the poll loop with its    *)
(* timeout.  Time is counted in ticks; a clock that has reached the value  *)
(* it is compared with stays there.                                        *)
(***************************************************************************)
Min(a, b) == IF a < b THEN a ELSE b

PaceFrame ==
  UNCHANGED <<teleVars, engineVars, hubVars, parVars, seqVars, memberVars,
              readVars, lifeVars, videoVars, rxVars, viewVars, fanVars,
              parseVars, handlerVars, lateVars>>

\* a tick of the clock: a sleeping thread sleeps on, a polling thread polls
\* on, and the last rc command is more than TIME_BTW_RC_CONTROL_COMMANDS ago
Tick ==
  /\ sinceReceived' = Min(sinceReceived + 1, TIME_BTW_COMMANDS)
  /\ sleepLeft' = IF sleepLeft > 0 THEN sleepLeft - 1 ELSE 0
  /\ waited' = IF pacePc = "wait" THEN Min(waited + 1, RESPONSE_TIMEOUT + 1)
                ELSE waited
  /\ rcElapsed' = TRUE
  /\ UNCHANGED <<pacePc, paceDone, sentAfter, responses, fired, fireCalls,
                 fireOp>>
  /\ PaceFrame

\* the hub hands a reply of the drone, 'ok', to the mailbox
ReplyArrives ==
  /\ Len(responses[Dev]) < MaxDeliver
  /\ responses' = ReceiveControlData(IpOf(Dev), OkText, responses)
  /\ UNCHANGED paceVars
  /\ UNCHANGED fireVars
  /\ PaceFrame

\* send_command_with_return is called: diff = time.time() -
\* self.last_received_command_timestamp, and time.sleep(diff) when diff is
\* less than TIME_BTW_COMMANDS
Pace ==
  /\ pacePc = "idle"
  /\ LET diff == sinceReceived
     IN  IF diff < TIME_BTW_COMMANDS
           THEN /\ sleepLeft' = diff
                /\ pacePc' = "sleep"
           ELSE /\ sleepLeft' = 0
                /\ pacePc' = "send"
  /\ UNCHANGED <<sinceReceived, waited, paceDone, sentAfter, responses>>
  /\ UNCHANGED fireVars
  /\ PaceFrame

\* time.sleep(diff) returns
SleepReturns ==
  /\ pacePc = "sleep"
  /\ sleepLeft = 0
  /\ pacePc' = "send"
  /\ UNCHANGED <<sinceReceived, sleepLeft, waited, paceDone, sentAfter,
                 responses>>
  /\ UNCHANGED fireVars
  /\ PaceFrame

\* timestamp = time.time(); self.send_command_fn(command, self.address)
Transmit ==
  /\ pacePc = "send"
  /\ sentAfter' = sinceReceived
  /\ waited' = 0
  /\ pacePc' = "wait"
  /\ UNCHANGED <<sinceReceived, sleepLeft, paceDone, responses>>
  /\ UNCHANGED fireVars
  /\ PaceFrame

\* the poll loop finds a reply: self.last_received_command_timestamp =
\* time.time(), then responses.pop(0)
PollReceives ==
  /\ pacePc = "wait"
  /\ responses[Dev] # <<>>
  /\ sinceReceived' = 0
  /\ responses' = [responses EXCEPT ![Dev] = Tail(@)]
  /\ paceDone' = Min(paceDone + 1, MaxDeliver)
  /\ pacePc' = "idle"
  /\ waited' = 0
  /\ UNCHANGED <<sleepLeft, sentAfter>>
  /\ UNCHANGED fireVars
  /\ PaceFrame

\* the poll loop finds the mailbox empty and time.time() - timestamp above
\* the timeout: the abort message is returned
PollTimesOut ==
  /\ pacePc = "wait"
  /\ responses[Dev] = <<>>
  /\ waited > RESPONSE_TIMEOUT
  /\ pacePc' = "idle"
  /\ waited' = 0
  /\ UNCHANGED <<sinceReceived, sleepLeft, paceDone, sentAfter, responses>>
  /\ UNCHANGED fireVars
  /\ PaceFrame

NextPacing ==
  \/ Tick
  \/ ReplyArrives
  \/ Pace
  \/ SleepReturns
  \/ Transmit
  \/ PollReceives
  \/ PollTimesOut
(***************************************************************************)
(* Tello.send_command_without_return and the operations of device Dev      *)
(* that are built on it: emergency, reboot and send_rc_control.            *)
(***************************************************************************)
DigitChars == <<"0", "1", "2", "3", "4", "5", "6", "7", "8", "9">>

\* '{}'.format(n) for an integer n
RECURSIVE NatText(_)
NatText(n) ==
  IF n < 10 THEN <<DigitChars[n + 1]>>
  ELSE NatText(n \div 10) \o <<DigitChars[(n % 10) + 1]>>

IntText(n) == IF n < 0 THEN <<"-">> \o NatText(0 - n) ELSE NatText(n)

\* clamp100: max(-100, min(100, x))
Clamp100(x) == IF x > 100 THEN 100 ELSE IF x < 0 - 100 THEN 0 - 100 ELSE x

\* 'rc {} {} {} {}'.format(...) of the clamped velocities
RcText(v) ==
  <<"r", "c">> \o <<" ">> \o IntText(Clamp100(v[1]))
    \o <<" ">> \o IntText(Clamp100(v[2]))
    \o <<" ">> \o IntText(Clamp100(v[3]))
    \o <<" ">> \o IntText(Clamp100(v[4]))

EmergencyText == <<"e", "m", "e", "r", "g", "e", "n", "c", "y">>

RebootText == <<"r", "e", "b", "o", "o", "t">>

\* the velocities send_rc_control is called with
RcInputs == { <<0, 0, 0, 0>>, <<150, 0 - 150, 100, 0 - 7>> }

FireFrame ==
  UNCHANGED <<teleVars, engineVars, hubVars, parVars, seqVars, memberVars,
              readVars, videoVars, rxVars, viewVars, fanVars, parseVars,
              handlerVars, lateVars, stream_on, endPc, endResult>>

\* a send_command_without_return that stamps the command as
\* send_command_with_return stamps a reply
SendCommandWithoutReturnStamps(cmd) ==
  /\ fired' = Append(fired, cmd)
  /\ sinceReceived' = 0
  /\ UNCHANGED <<responses, pacePc, sleepLeft, waited, paceDone, sentAfter>>

\* send_command_without_return(cmd): self.send_command_fn(command,
\* self.address), and nothing else
SendCommandWithoutReturn(cmd) ==
  /\ fired' = Append(fired, cmd)
  /\ UNCHANGED <<responses, paceVars>>

\* send_command_without_return is called by the user
CallSendCommandWithoutReturn(cmd) ==
  /\ fireCalls < MaxFire
  /\ fireCalls' = fireCalls + 1
  /\ fireOp' = "send_command_without_return"
  /\ SendCommandWithoutReturn(cmd)
  /\ UNCHANGED <<rcElapsed, is_flying>>
  /\ FireFrame

\* emergency()
Emergency ==
  /\ fireCalls < MaxFire
  /\ fireCalls' = fireCalls + 1
  /\ fireOp' = "emergency"
  /\ SendCommandWithoutReturn(EmergencyText)
  /\ is_flying' = FALSE
  /\ UNCHANGED rcElapsed
  /\ FireFrame

\* reboot()
Reboot ==
  /\ fireCalls < MaxFire
  /\ fireCalls' = fireCalls + 1
  /\ fireOp' = "reboot"
  /\ SendCommandWithoutReturn(RebootText)
  /\ UNCHANGED <<rcElapsed, is_flying>>
  /\ FireFrame

\* send_rc_control(...): the command is built and sent when the last one is
\* more than TIME_BTW_RC_CONTROL_COMMANDS ago, and nothing is done otherwise
SendRcControl(v) ==
  /\ fireCalls < MaxFire
  /\ fireCalls' = fireCalls + 1
  /\ fireOp' = "send_rc_control"
  /\ IF rcElapsed
       THEN /\ rcElapsed' = FALSE
            /\ SendCommandWithoutReturn(RcText(v))
       ELSE UNCHANGED <<rcElapsed, fired, responses, paceVars>>
  /\ UNCHANGED is_flying
  /\ FireFrame

\* more than TIME_BTW_RC_CONTROL_COMMANDS passes, and less than a tick
RcIntervalPasses ==
  /\ ~rcElapsed
  /\ rcElapsed' = TRUE
  /\ UNCHANGED <<fired, fireCalls, fireOp, responses, paceVars, is_flying>>
  /\ FireFrame

NextFire ==
  \/ \E cmd \in Commands : CallSendCommandWithoutReturn(cmd)
  \/ Emergency
  \/ Reboot
  \/ \E v \in RcInputs : SendRcControl(v)
  \/ RcIntervalPasses
  \/ Tick
  \/ ReplyArrives
(***************************************************************************)
(* TelloCommunication: the registration of the handlers of the control     *)
(* socket and of the state socket.  A handler is the udp_control_receiver  *)
(* or the udp_state_receiver of a device.                                  *)
(***************************************************************************)
\* the IPs a caller registers a handler for: the IP of a device of the
\* swarm, and the IP that belongs to none
RegisterIps == {IpOf(Dev), NumTellos + 1}

\* the handlers a caller registers: the receivers of two devices
RegisterHandlers == {Dev, CHOOSE d \in Tellos : d # Dev}

RegFrame ==
  UNCHANGED <<responses, teleVars, engineVars, received, parVars, seqVars,
              memberVars, readVars, lifeVars, videoVars, stateLoop, lastLine,
              lastGood, rxRaised, getKey, getResult, viewVars, fanVars,
              parseVars, paceVars, fireVars, handlerVars, corrVars,
              raceVars, silentVars, syncVars>>

\* a registration that leaves an IP that has a handler with it
AddUdpControlHandlerKeepsFirst(ip, fn) ==
  /\ Len(registrations) < MaxRegister
  /\ udp_control_handlers' =
       IF ip \in DOMAIN udp_control_handlers
         THEN udp_control_handlers
         ELSE DictPut(udp_control_handlers, ip, fn)
  /\ registrations' = Append(registrations, <<"control", ip, fn>>)
  /\ UNCHANGED udp_state_handlers
  /\ RegFrame

\* add_udp_control_handler: self.udp_control_handlers[ip] = fn
AddUdpControlHandler(ip, fn) ==
  /\ Len(registrations) < MaxRegister
  /\ udp_control_handlers' = DictPut(udp_control_handlers, ip, fn)
  /\ registrations' = Append(registrations, <<"control", ip, fn>>)
  /\ UNCHANGED udp_state_handlers
  /\ RegFrame

\* add_udp_state_handler: self.udp_state_handlers[ip] = fn
AddUdpStateHandler(ip, fn) ==
  /\ Len(registrations) < MaxRegister
  /\ udp_state_handlers' = DictPut(udp_state_handlers, ip, fn)
  /\ registrations' = Append(registrations, <<"state", ip, fn>>)
  /\ UNCHANGED udp_control_handlers
  /\ RegFrame

\* callers that register handlers while both sockets receive datagrams from
\* these IPs
NextRegister ==
  \/ \E ip \in RegisterIps, fn \in RegisterHandlers : AddUdpControlHandler(ip, fn)
  \/ \E ip \in RegisterIps, fn \in RegisterHandlers : AddUdpStateHandler(ip, fn)
  \/ \E ip \in RegisterIps : RecvControl(ip, OkText)
  \/ \E ip \in RegisterIps, data \in StateLines : StateDatagram(ip, data)
(***************************************************************************)
(* The replies of device Dev and the commands they answer.  One caller     *)
(* sends commands with send_command_with_return and with                   *)
(* send_command_without_return; the datagrams are numbered in the order of *)
(* their transmission, and the drone answers each of them at most once, at *)
(* any later time.                                                         *)
(***************************************************************************)
\* no call of send_command_with_return has returned
NothingReturned == <<0, 0>>

\* the call returned the abort text of its timeout, not a reply
TimedOut == 0

CorrFrame ==
  UNCHANGED <<teleVars, engineVars, hubVars, parVars, seqVars, memberVars,
              readVars, lifeVars, videoVars, rxVars, viewVars, fanVars,
              parseVars, paceVars, fireVars, handlerVars, regVars, raceVars,
              silentVars, syncVars>>

\* send_command_with_return transmits the command and starts polling
TransmitWithReturn ==
  /\ corrPc = "idle"
  /\ transmitted < MaxTransmit
  /\ transmitted' = transmitted + 1
  /\ unanswered' = unanswered \cup {transmitted + 1}
  /\ corrPc' = "wait"
  /\ UNCHANGED <<responses, answers, returned>>
  /\ CorrFrame

\* send_command_without_return transmits the command and returns
TransmitWithoutReturn ==
  /\ corrPc = "idle"
  /\ transmitted < MaxTransmit
  /\ transmitted' = transmitted + 1
  /\ unanswered' = unanswered \cup {transmitted + 1}
  /\ UNCHANGED <<responses, corrPc, answers, returned>>
  /\ CorrFrame

\* the drone answers datagram n; the hub hands the reply to the mailbox
ReplyTo(n) ==
  /\ n \in unanswered
  /\ unanswered' = unanswered \ {n}
  /\ responses' = ReceiveControlData(IpOf(Dev), OkText, responses)
  /\ answers' = IF responses' = responses THEN answers ELSE Append(answers, n)
  /\ UNCHANGED <<corrPc, transmitted, returned>>
  /\ CorrFrame

\* the poll loop finds the mailbox non-empty: responses.pop(0) is returned
PollPops ==
  /\ corrPc = "wait"
  /\ responses[Dev] # <<>>
  /\ responses' = [responses EXCEPT ![Dev] = Tail(@)]
  /\ answers' = Tail(answers)
  /\ returned' = <<transmitted, Head(answers)>>
  /\ corrPc' = "idle"
  /\ UNCHANGED <<transmitted, unanswered>>
  /\ CorrFrame

\* the poll loop finds the mailbox empty after the timeout has elapsed
PollAborts ==
  /\ corrPc = "wait"
  /\ responses[Dev] = <<>>
  /\ returned' = <<transmitted, TimedOut>>
  /\ corrPc' = "idle"
  /\ UNCHANGED <<responses, transmitted, unanswered, answers>>
  /\ CorrFrame

NextCorrelation ==
  \/ TransmitWithReturn
  \/ TransmitWithoutReturn
  \/ \E n \in 1..MaxTransmit : ReplyTo(n)
  \/ PollPops
  \/ PollAborts
(***************************************************************************)
(* Two threads that call send_command_with_return on device Dev at the     *)
(* same time.  The interpreter may switch threads between any two          *)
(* operations on the mailbox: the test `while not responses` and           *)
(* `responses.pop(0)` are two steps.                                       *)
(***************************************************************************)
Callers == {"a", "b"}

\* responses.pop(0) on an empty list
IndexError == <<"IndexError">>

RaceFrame ==
  UNCHANGED <<teleVars, hubVars, parVars, seqVars, memberVars, readVars,
              lifeVars, videoVars, rxVars, viewVars, fanVars, parseVars,
              paceVars, fireVars, handlerVars, regVars, corrVars,
              silentVars, syncVars,
              retry_count, ctlPc, command, attempt, response, ctlResult,
              tries, sent, delivered, okDuring, ctlCalls>>

\* self.send_command_fn(command, self.address): the thread starts polling
CallerTransmits(t) ==
  /\ callPc[t] \in {"idle", "done"}
  /\ owed + delivered < MaxTransmit
  /\ owed' = owed + 1
  /\ callPc' = [callPc EXCEPT ![t] = "poll"]
  /\ callGot' = [callGot EXCEPT ![t] = NoReply]
  /\ UNCHANGED <<responses, taken>>
  /\ RaceFrame

\* `while not responses` finds the mailbox non-empty: the loop is left
CallerSeesReply(t) ==
  /\ callPc[t] = "poll"
  /\ responses[Dev] # <<>>
  /\ callPc' = [callPc EXCEPT ![t] = "pop"]
  /\ UNCHANGED <<responses, owed, callGot, taken>>
  /\ RaceFrame

\* the timeout has elapsed with the mailbox empty: the abort text is
\* returned
CallerTimesOut(t) ==
  /\ callPc[t] = "poll"
  /\ responses[Dev] = <<>>
  /\ callPc' = [callPc EXCEPT ![t] = "done"]
  /\ UNCHANGED <<responses, owed, callGot, taken>>
  /\ RaceFrame

\* first_response = responses.pop(0): the oldest entry, or IndexError when
\* the list is empty by now
CallerPops(t) ==
  /\ callPc[t] = "pop"
  /\ IF responses[Dev] # <<>>
       THEN /\ responses' = [responses EXCEPT ![Dev] = Tail(@)]
            /\ callGot' = [callGot EXCEPT ![t] = Head(responses[Dev])]
            /\ taken' = [taken EXCEPT ![t] =
                           @ \cup {delivered - Len(responses[Dev]) + 1}]
            /\ callPc' = [callPc EXCEPT ![t] = "done"]
       ELSE /\ callGot' = [callGot EXCEPT ![t] = IndexError]
            /\ callPc' = [callPc EXCEPT ![t] = "raised"]
            /\ UNCHANGED <<responses, taken>>
  /\ UNCHANGED owed
  /\ RaceFrame

NextRace ==
  \/ \E data \in Payloads : DroneReply(data)
  \/ \E t \in Callers : CallerTransmits(t)
  \/ \E t \in Callers : CallerSeesReply(t)
  \/ \E t \in Callers : CallerTimesOut(t)
  \/ \E t \in Callers : CallerPops(t)
(***************************************************************************)
(* Drones that stop sending telemetry: a drone that has stopped sends no   *)
(* state datagram any more, and nothing else in tello.py assigns to the    *)
(* telemetry snapshot.                                                     *)
(***************************************************************************)
\* drone d is switched off or flies out of range
StopsSending(d) ==
  /\ d \notin silent
  /\ silent' = silent \cup {d}
  /\ UNCHANGED <<responses, teleVars, engineVars, hubVars, parVars, seqVars,
                 memberVars, readVars, lifeVars, videoVars, rxVars, viewVars,
                 fanVars, parseVars, paceVars, fireVars, handlerVars, regVars,
                 corrVars, raceVars, syncVars>>

\* a drone that still sends delivers a telemetry line
SendsTelemetry(d, line) ==
  /\ d \notin silent
  /\ RecvState(d, line)

\* the supervisory threads and the telemetry of the drones that still send
NextSilent ==
  \/ \E d \in Tellos : StopsSending(d)
  \/ \E d \in Tellos, line \in StateLines : SendsTelemetry(d, line)
  \/ MonitorStep
  \/ ReconnectStep
(***************************************************************************)
(* TelloSwarm.sync(timeout): self.barrier.wait(timeout).  A wait that      *)
(* times out breaks the threading.Barrier: the thread that timed out and   *)
(* the threads waiting with it get BrokenBarrierError, and so does every   *)
(* thread that calls wait afterwards, until reset() is called.  swarm.py   *)
(* never calls reset().  The swarm function catches the error and goes on. *)
(***************************************************************************)
SyncFrame ==
  UNCHANGED <<responses, teleVars, engineVars, hubVars, seqVars, memberVars,
              readVars, lifeVars, videoVars, rxVars, viewVars, fanVars,
              parseVars, paceVars, fireVars, handlerVars, regVars, corrVars,
              raceVars, silentVars>>

\* threading.Barrier._break, and the thread leaving wait by its finally
Break(b) == [count |-> b.count - 1, state |-> "broken"]

\* the barrier is in the broken state
IsBroken(b) == b.state = "broken"

\* the timeout of a waiting sync(timeout) elapses before the barrier trips
SyncTimesOut(i) ==
  /\ wPc[i] = "syncWait"
  /\ CanEnter(barrier)
  /\ barrier' = Break(barrier)
  /\ timedOutAt' = parCalls
  /\ syncErrAt' = [syncErrAt EXCEPT ![i] = parCalls]
  /\ wPc' = [wPc EXCEPT ![i] = "run"]
  /\ wLeft' = [wLeft EXCEPT ![i] = @ - 1]
  /\ UNCHANGED <<funcQueues, funcBarrier, wFn, parPc, parFn, putIdx, parCalls,
                 parReturned, wDone, syncIn, syncOut>>
  /\ SyncFrame

\* sync() at a broken barrier: a waiting thread is woken with
\* BrokenBarrierError, a calling thread gets it at once
SyncBroken(i) ==
  /\ IsBroken(barrier)
  /\ \/ /\ wPc[i] = "syncWait"
        /\ barrier' = Break(barrier)
     \/ /\ wPc[i] = "run"
        /\ wLeft[i] > 0
        /\ barrier' = barrier
  /\ syncErrAt' = [syncErrAt EXCEPT ![i] = parCalls]
  /\ wPc' = [wPc EXCEPT ![i] = "run"]
  /\ wLeft' = [wLeft EXCEPT ![i] = @ - 1]
  /\ UNCHANGED <<funcQueues, funcBarrier, wFn, parPc, parFn, putIdx, parCalls,
                 parReturned, wDone, syncIn, syncOut, timedOutAt>>
  /\ SyncFrame

\* the workers and one caller of parallel(), for every swarm function
NextSyncTimeout ==
  \/ \E func \in Funcs : Parallel(func)
  \/ CallerStep
  \/ \E i \in Tellos : WorkerStep(i)
  \/ \E i \in Tellos : SyncTimesOut(i)
  \/ \E i \in Tellos : SyncBroken(i)
(***************************************************************************)
(* The state after construction, and the specifications.                   *)
(***************************************************************************)
InitTellos ==
  /\ responses = [d \in Tellos |-> <<>>]
  /\ state = [d \in Tellos |-> EmptyDict]
  /\ ctlPc = "idle"
  /\ command = <<>>
  /\ attempt = 0
  /\ response = <<>>
  /\ ctlResult = "none"
  /\ tries = 0
  /\ sent = 0
  /\ delivered = 0
  /\ owed = 0
  /\ okDuring = FALSE
  /\ ctlCalls = 0

InitHub ==
  /\ udp_control_handlers = [ip \in {IpOf(d) : d \in Tellos} |->
                               CHOOSE d \in Tellos : IpOf(d) = ip]
  /\ received = <<>>

InitSwarm ==
  /\ funcQueues = [i \in Tellos |-> <<>>]
  /\ funcBarrier = NewBarrier
  /\ barrier = NewBarrier
  /\ wPc = [i \in Tellos |-> "get"]
  /\ wFn = [i \in Tellos |-> NoFunc]
  /\ wLeft = [i \in Tellos |-> 0]
  /\ parPc = "idle"
  /\ parFn = NoFunc
  /\ putIdx = 1
  /\ parCalls = 0
  /\ parReturned = 0
  /\ wDone = [i \in Tellos |-> 0]
  /\ syncIn = [i \in Tellos |-> 0]
  /\ syncOut = [i \in Tellos |-> 0]
  /\ seqPc = "idle"
  /\ seqIdx = 1
  /\ seqTello = 0
  /\ connected_tellos = [k \in 1..NumTellos |-> k]
  /\ unreachable_tellos = <<>>
  /\ monPc = "sleep"
  /\ monIdx = 1
  /\ monTello = 0
  /\ monFailing = {}
  /\ recPc = "sleep"
  /\ recIdx = 1
  /\ recTello = 0

InitRead ==
  /\ readPc = "idle"
  /\ readCmd = <<>>
  /\ readSent = 0
  /\ readReply = NoReply
  /\ readResponse = <<>>
  /\ readResult = "none"
  /\ readCalls = 0

InitVideo ==
  /\ video_stream_host_destination = EmptyDict
  /\ video_stream_multicast_destination = EmptyDict
  /\ hostRegistered = [p \in VideoPorts |-> {}]
  /\ multicastRegistered = [p \in VideoPorts |-> {}]
  /\ videoCount = 0
  /\ videoSent = [port |-> 0, data |-> <<>>, sends |-> <<>>]

InitRx ==
  /\ udp_state_handlers = [ip \in {IpOf(d) : d \in Tellos} |->
                             CHOOSE d \in Tellos : IpOf(d) = ip]
  /\ stateLoop = "recv"
  /\ lastLine = [d \in Tellos |-> NoLine]
  /\ lastGood = [d \in Tellos |-> NoLine]
  /\ rxRaised = [d \in Tellos |-> FALSE]
  /\ getKey = <<>>
  /\ getResult = NotCalled

InitView ==
  /\ lenResult = 0 - 1
  /\ iterResult = <<0>>

InitFan ==
  /\ invoked = [d \in Tellos |-> <<>>]

\* parse_state is not called
InitParseIdle ==
  /\ parsePc = "idle"
  /\ parseLine = <<>>
  /\ parseResult = EmptyDict

\* self.last_received_command_timestamp = time.time()
InitPace ==
  /\ pacePc = "idle"
  /\ sinceReceived = 0
  /\ sleepLeft = 0
  /\ waited = 0
  /\ paceDone = 0
  /\ sentAfter = 0

\* self.last_rc_control_timestamp = time.time()
InitFire ==
  /\ rcElapsed = FALSE
  /\ fired = <<>>
  /\ fireCalls = 0
  /\ fireOp = "none"

\* a swarm constructed without a callback
InitNoHandler ==
  /\ tello_connected_handler = NoHandler
  /\ handlerOf = SetTelloConnectedHandler(NoHandler)
  /\ handlerCalls = <<>>

\* no handler was registered after the swarm's constructor
InitRegister ==
  /\ registrations = <<>>

\* nothing was transmitted to the device yet
InitCorrelation ==
  /\ corrPc = "idle"
  /\ transmitted = 0
  /\ unanswered = {}
  /\ answers = <<>>
  /\ returned = NothingReturned

\* no thread is inside send_command_with_return
InitCallers ==
  /\ callPc = [t \in Callers |-> "idle"]
  /\ callGot = [t \in Callers |-> NoReply]
  /\ taken = [t \in Callers |-> {}]

\* every drone sends telemetry
InitSilent ==
  /\ silent = {}

\* no sync() has timed out or raised
InitSync ==
  /\ timedOutAt = 0
  /\ syncErrAt = [i \in Tellos |-> 0]

InitLate ==
  /\ InitRegister
  /\ InitCorrelation
  /\ InitCallers
  /\ InitSilent
  /\ InitSync

InitExt ==
  /\ InitLate
  /\ InitFan
  /\ InitParseIdle
  /\ InitPace
  /\ InitFire
  /\ InitNoHandler

\* a Tello just constructed neither flies nor streams
InitRest ==
  /\ InitRead
  /\ is_flying = FALSE
  /\ stream_on = FALSE
  /\ endPc = "idle"
  /\ endResult = "none"
  /\ InitVideo
  /\ InitRx
  /\ InitView
  /\ InitExt

\* a swarm of Tellos constructed with the default retry_count
InitDefault ==
  /\ retry_count = RETRY_COUNT
  /\ InitTellos
  /\ InitHub
  /\ InitSwarm
  /\ InitRest

\* the same, for every retry_count
Init ==
  /\ retry_count \in 0..MaxRetry
  /\ InitTellos
  /\ InitHub
  /\ InitSwarm
  /\ InitRest

\* the command engine of one device
SpecEngine == Init /\ [][NextEngine]_vars

\* the control socket's receive loop
SpecHub == InitDefault /\ [][NextHub]_vars

\* the workers and the caller of parallel()
SpecPar == InitDefault /\ [][NextPar]_vars

\* the same, every thread being scheduled again and again
SpecParFair ==
  /\ SpecPar
  /\ WF_vars(CallerStep)
  /\ \A i \in Tellos : WF_vars(WorkerStep(i))

\* the health monitor, the reconnect supervisor and the telemetry
SpecMember == InitDefault /\ [][NextMember]_vars

\* the swarm as a whole
SpecSwarm == InitDefault /\ [][NextSwarm]_vars


\* the same, both supervisory threads being scheduled again and again
SpecMemberFair ==
  /\ SpecMember
  /\ WF_vars(MonitorStep)
  /\ WF_vars(ReconnectStep)

\* the read commands of one device
SpecRead == InitDefault /\ [][NextRead]_vars

\* an idle Tello at any point of its life, flying or not, streaming or not
InitLifecycle ==
  /\ retry_count = RETRY_COUNT
  /\ InitTellos
  /\ InitHub
  /\ InitSwarm
  /\ InitRead
  /\ is_flying \in BOOLEAN
  /\ stream_on \in BOOLEAN
  /\ endPc = "idle"
  /\ endResult = "none"
  /\ InitVideo
  /\ InitRx
  /\ InitView
  /\ InitExt

\* the teardown of one device
SpecLifecycle == InitLifecycle /\ [][NextLifecycle]_vars

\* the video relay and the callers that add and remove destinations
SpecVideo == InitDefault /\ [][NextVideo]_vars

\* the state socket's receive loop and a caller of get_state_field
SpecTelemetry == InitDefault /\ [][NextTelemetry]_vars

\* the swarm read as a collection while its membership is maintained
SpecView == InitDefault /\ [][NextView]_vars

\* the fan-out of an operation the swarm does not define
SpecFanOut == InitDefault /\ [][NextFanOut]_vars

\* sequential() of a swarm whose membership is maintained
SpecSequential == InitDefault /\ [][NextSequential]_vars

\* parse_state about to be called on a line of telemetry
InitParse ==
  /\ retry_count = RETRY_COUNT
  /\ InitTellos
  /\ InitHub
  /\ InitSwarm
  /\ InitRead
  /\ is_flying = FALSE
  /\ stream_on = FALSE
  /\ endPc = "idle"
  /\ endResult = "none"
  /\ InitVideo
  /\ InitRx
  /\ InitView
  /\ InitFan
  /\ InitPace
  /\ InitFire
  /\ InitNoHandler
  /\ InitLate
  /\ parsePc = "todo"
  /\ parseLine \in FieldLines(MaxFields)
  /\ parseResult = EmptyDict

\* parse_state on every such line
SpecParse == InitParse /\ [][NextParse]_vars

\* the commands of one device against the clock
SpecPacing == InitDefault /\ [][NextPacing]_vars

\* the commands sent without waiting for a reply
SpecFire == InitLifecycle /\ [][NextFire]_vars

\* a swarm constructed with a callback of the user
InitSupervised ==
  /\ retry_count = RETRY_COUNT
  /\ InitTellos
  /\ InitHub
  /\ InitSwarm
  /\ InitRead
  /\ is_flying = FALSE
  /\ stream_on = FALSE
  /\ endPc = "idle"
  /\ endResult = "none"
  /\ InitVideo
  /\ InitRx
  /\ InitView
  /\ InitFan
  /\ InitParseIdle
  /\ InitPace
  /\ InitFire
  /\ InitLate
  /\ tello_connected_handler = UserHandler
  /\ handlerOf = SetTelloConnectedHandler(UserHandler)
  /\ handlerCalls = <<>>

\* the supervisory threads of such a swarm
SpecSupervised == InitSupervised /\ [][NextMember]_vars

\* handlers registered while the two sockets receive
SpecRegister == InitDefault /\ [][NextRegister]_vars

\* one caller's commands to a device whose replies may come late
SpecCorrelation == InitDefault /\ [][NextCorrelation]_vars

\* two threads that send commands to the same device
SpecRace == InitDefault /\ [][NextRace]_vars

\* the supervisory threads, scheduled again and again, and drones that may
\* stop sending telemetry
SpecSilent ==
  /\ InitDefault
  /\ [][NextSilent]_vars
  /\ WF_vars(MonitorStep)
  /\ WF_vars(ReconnectStep)

\* the workers and the caller of parallel(), the swarm functions calling
\* sync with a timeout
SpecSyncTimeout == InitDefault /\ [][NextSyncTimeout]_vars

\* every thread and every caller at once
Next ==
  \/ NextEngine
  \/ NextHub
  \/ NextPar
  \/ NextFanOut
  \/ NextSwarm
  \/ NextSequential
  \/ NextRead
  \/ NextLifecycle
  \/ NextVideo
  \/ NextTelemetry
  \/ NextView
  \/ NextParse
  \/ NextPacing
  \/ NextFire
  \/ NextRegister
  \/ NextCorrelation
  \/ NextRace
  \/ NextSilent
  \/ NextSyncTimeout

Spec == Init /\ [][Next]_vars
(***************************************************************************)
(* C1. If the hub delivers a reply containing 'ok' during one of the       *)
(* attempts of send_control_command, the call returns True and the mailbox *)
(* is empty when it returns.                                               *)
(***************************************************************************)
C1_OkReplyGivesSuccess ==
  (ctlPc = "done" /\ okDuring) =>
    (ctlResult = "true" /\ responses[Dev] = <<>>)

(***************************************************************************)
(* C2. If no reply is ever delivered, send_control_command transmits the   *)
(* command exactly retry_count + 1 times, every attempt ending by its      *)
(* timeout, and then raises.                                               *)
(***************************************************************************)
C2_RetryCountPlusOneAttempts ==
  (ctlPc = "done" /\ delivered = 0) =>
    (ctlResult = "raised" /\ sent = retry_count + 1)

(***************************************************************************)
(* C3. A worker whose swarm function raises still arrives at the exit      *)
(* barrier: its thread goes on through the worker loop, so that parallel() *)
(* is not left waiting for it for ever.                                    *)
(***************************************************************************)
WorkerLoop ==
  {"get", "entry", "entryWait", "run", "syncWait", "exit", "exitWait"}

C3_RaisingWorkerReachesExitBarrier == \A i \in Tellos : wPc[i] \in WorkerLoop

(***************************************************************************)
(* C4. parallel(func) returns only after func has returned on every        *)
(* device: as many func invocations have returned on each worker as        *)
(* parallel() calls have returned.                                         *)
(***************************************************************************)
C4_ParallelReturnsAfterAll == \A i \in Tellos : wDone[i] >= parReturned

C4_Witness ==
  /\ parReturned = 2
  /\ \A i \in Tellos : wDone[i] = 2

(***************************************************************************)
(* C5. No worker is released from its k-th sync() of a run before every    *)
(* worker has entered its k-th sync() of that run; the workers alone are   *)
(* the parties of this barrier.                                            *)
(***************************************************************************)
C5_SyncReleasesAfterAllEntered ==
  \A i \in Tellos : \A j \in Tellos : syncOut[i] <= syncIn[j]

C5_Witness ==
  /\ parPc = "exitWait"
  /\ \A i \in Tellos : parFn[i] = 2 /\ syncOut[i] = 2

(***************************************************************************)
(* C6. When func calls sync() the same number of times on every device     *)
(* and no func raises, parallel(func) eventually returns; when func calls  *)
(* sync() a different number of times on different devices, parallel(func) *)
(* never returns.                                                          *)
(***************************************************************************)
Uniform(func) == \A i \in Tellos : \A j \in Tellos : func[i] = func[j]

C6_SyncCountsDecideTermination ==
  /\ (parPc # "idle" /\ Uniform(parFn))
       ~> (parPc = "idle" \/ \E i \in Tellos : wPc[i] = "dead")
  /\ [][(parPc # "idle" /\ ~Uniform(parFn)) => parPc' # "idle"]_vars

C6_Witness ==
  /\ parReturned = 1
  /\ parCalls = 2
  /\ parPc = "exitWait"
  /\ ~Uniform(parFn)
  /\ \E i \in Tellos : wPc[i] = "syncWait"
  /\ \E j \in Tellos : wPc[j] = "exitWait"
  /\ \A i \in Tellos : syncOut[i] = 0

(***************************************************************************)
(* C7. Each device's mailbox holds exactly the payloads of the datagrams   *)
(* the control socket received from that device's IP, in the order of      *)
(* their reception; a datagram of another device or of an unregistered IP  *)
(* is in no other mailbox.                                                 *)
(***************************************************************************)
RECURSIVE PayloadsFrom(_, _)
PayloadsFrom(datagrams, ip) ==
  IF datagrams = <<>> THEN <<>>
  ELSE IF Head(datagrams)[1] = ip
    THEN <<Head(datagrams)[2]>> \o PayloadsFrom(Tail(datagrams), ip)
    ELSE PayloadsFrom(Tail(datagrams), ip)

C7_Demultiplexing ==
  \A d \in Tellos : responses[d] = PayloadsFrom(received, IpOf(d))

C7_Witness ==
  /\ Len(received) = 3
  /\ received[1][1] = IpOf(2)
  /\ received[2][1] = NumTellos + 1
  /\ received[3][1] = IpOf(2)
  /\ received[1][2] # received[3][2]
  /\ Len(responses[2]) = 2

(***************************************************************************)
(* C8. In every state every device of the swarm is in exactly one of the   *)
(* lists connected_tellos and unreachable_tellos, exactly once.            *)
(***************************************************************************)
C8_MembershipPartition ==
  \A d \in Tellos :
    Count(connected_tellos, d) + Count(unreachable_tellos, d) = 1

(***************************************************************************)
(* C9. When a pass of the health monitor has ended, no device that was     *)
(* connected and without telemetry all through the pass is left in         *)
(* connected_tellos.                                                       *)
(***************************************************************************)
C9_FailingRemovedInOnePass ==
  monPc = "sleep" => \A d \in monFailing : ~InList(connected_tellos, d)

(***************************************************************************)
(* C10. Neither parallel() nor sequential() invokes func on a device that  *)
(* is in unreachable_tellos.                                               *)
(***************************************************************************)
C10_NoFuncOnUnreachable ==
  [][/\ \A i \in Tellos :
          (wPc[i] \in {"entry", "entryWait"} /\ wPc'[i] = "run")
            => ~InList(unreachable_tellos, i)
     /\ (seqPc = "for" /\ seqPc' = "func")
            => ~InList(unreachable_tellos, seqTello')]_vars


(***************************************************************************)
(* C11. The reconnect supervisor moves a device exactly when its handshake *)
(* succeeded.  When connect() has returned and the device is reachable,    *)
(* the device is appended to connected_tellos and then taken out of        *)
(* unreachable_tellos; when connect() raises, or the device is still       *)
(* unreachable after it, both lists are left as they were and the device   *)
(* is still in unreachable_tellos for the next pass.                       *)
(***************************************************************************)
C11_ReconnectMovesOnSuccessOnly ==
  [][/\ (recPc = "check" /\ recPc' = "remove") =>
          /\ ~IsUnreachable(recTello)
          /\ InList(connected_tellos', recTello)
     /\ (recPc = "remove" /\ recPc' = "for") =>
          Count(unreachable_tellos', recTello)
            = Count(unreachable_tellos, recTello) - 1
     /\ (recPc \in {"connect", "check"} /\ recPc' \in {"sleep", "for"}) =>
          /\ connected_tellos' = connected_tellos
          /\ unreachable_tellos' = unreachable_tellos
          /\ InList(unreachable_tellos', recTello)
          /\ (recPc = "check" => IsUnreachable(recTello))]_vars

\* the supervisor has just moved a device back: it is connected again and
\* no longer unreachable
C11_Witness ==
  /\ recPc = "for"
  /\ recTello # 0
  /\ InList(connected_tellos, recTello)
  /\ ~InList(unreachable_tellos, recTello)

(***************************************************************************)
(* C12. A device whose handshake raises in every pass does not keep the    *)
(* reconnect supervisor from the other unreachable devices: every device   *)
(* in unreachable_tellos is eventually handed to connect() (or leaves the  *)
(* list).                                                                  *)
(***************************************************************************)
C12_FailingDeviceDoesNotBlockOthers ==
  \A b \in Tellos :
    InList(unreachable_tellos, b) ~>
      ((recPc = "connect" /\ recTello = b) \/ ~InList(unreachable_tellos, b))

C14_ReadOnceNoRetry ==
  readPc = "done" =>
    /\ readSent = 1
    /\ (readReply # NoReply /\ Decodable(readReply)) =>
         IF HasErrorMarker(readReply)
           THEN readResult = "raised"
           ELSE /\ readResult = "returned"
                /\ readResponse = RStrip(readReply, {"\r", "\n"})

\* the reply 'OK\r\n' was returned as 'OK'
C14_Witness ==
  /\ readPc = "done"
  /\ readResult = "returned"
  /\ readReply = <<"O", "K", "\r", "\n">>
  /\ readResponse = <<"O", "K">>

(***************************************************************************)
(* C14, as stated: the same, the text returned being the reply text        *)
(* unchanged.                                                              *)
(***************************************************************************)
C14_ReadReturnsReplyUnchanged ==
  readPc = "done" =>
    /\ readSent = 1
    /\ (readReply # NoReply /\ Decodable(readReply)) =>
         IF HasErrorMarker(readReply)
           THEN readResult = "raised"
           ELSE /\ readResult = "returned"
                /\ readResponse = readReply

(***************************************************************************)
(* C15. end() never surfaces a failure: whatever the flags and whatever    *)
(* becomes of the land and streamoff commands, end() returns normally.     *)
(***************************************************************************)
C15_TeardownNeverRaises == endPc = "done" => endResult = "returned"

(***************************************************************************)
(* C16. A video datagram received on a local port is sent, unmodified, to  *)
(* exactly the destinations registered for the port when it arrives: to    *)
(* every destination added and not removed since, and to none that was     *)
(* removed, however often it had been added.                               *)
(***************************************************************************)
SentTo(relayed, via) ==
  {relayed.sends[k].to :
     k \in {j \in 1..Len(relayed.sends) : relayed.sends[j].via = via}}

C16_VideoRelayExact ==
  [][videoCount' # videoCount =>
       /\ \A k \in 1..Len(videoSent'.sends) :
            videoSent'.sends[k].data = videoSent'.data
       /\ SentTo(videoSent', "host") = hostRegistered[videoSent'.port]
       /\ SentTo(videoSent', "multicast")
            = multicastRegistered[videoSent'.port]]_vars

(***************************************************************************)
(* C17. parse_state turns 'pitch:10;roll:-3;bat:88;' into the snapshot     *)
(* with exactly pitch = 10, roll = -3 and bat = 88, all three integers,    *)
(* and the line 'ok' into the empty snapshot; parsing the same line once   *)
(* more gives the same snapshot.                                           *)
(***************************************************************************)
PitchSnapshot ==
  (<<"p", "i", "t", "c", "h">> :> 10) @@ (<<"r", "o", "l", "l">> :> (0 - 3))
    @@ (<<"b", "a", "t">> :> 88)

C17_ParseStateExample ==
  [][\A d \in Tellos :
       /\ lastGood'[d] = PitchLine =>
            /\ DOMAIN state'[d] = DOMAIN PitchSnapshot
            /\ \A key \in DOMAIN PitchSnapshot :
                 /\ state'[d][key] \in Int
                 /\ state'[d][key] = PitchSnapshot[key]
       /\ lastGood'[d] = OkText => DOMAIN state'[d] = {}
       /\ (lastGood[d] # NoLine /\ lastGood'[d] = lastGood[d]) =>
            state'[d] = state[d]]_vars

\* the example line has been parsed and, before it, the line 'ok'
C17_Witness ==
  /\ lastGood[1] = PitchLine
  /\ state[1] = PitchSnapshot
  /\ lastGood[2] = OkText
  /\ lastLine[2] = OkText

(***************************************************************************)
(* C18. After a state datagram of the device has been parsed, the snapshot *)
(* holds exactly the fields of that datagram: a key of the snapshot before *)
(* that the new line lacks is gone.  get_state_field raises for a key the  *)
(* snapshot lacks and returns the snapshot's value otherwise.              *)
(***************************************************************************)
C18_SnapshotReplacedAccessorFails ==
  [][/\ \A d \in Tellos :
          lastGood'[d] # NoLine => state'[d] = ParseState(lastGood'[d])
     /\ (getKey' # getKey \/ getResult' # getResult) =>
          IF getKey' \in DOMAIN ParseState(lastGood[Dev])
               /\ lastGood[Dev] # NoLine
            THEN getResult' = <<"value", ParseState(lastGood[Dev])[getKey']>>
            ELSE getResult' = RaisedTelloException]_vars

\* 'bat:88;' came after the example line, and the accessor has raised for
\* pitch, which only the line before had
C18_Witness ==
  /\ lastGood[Dev] = <<"b", "a", "t", ":", "8", "8", ";">>
  /\ DOMAIN state[Dev] = {<<"b", "a", "t">>}
  /\ rxRaised[Dev] = FALSE
  /\ getKey = <<"p", "i", "t", "c", "h">>
  /\ getResult = RaisedTelloException

(***************************************************************************)
(* C19. The receive loop of the state socket outlives a handler that       *)
(* raises: after a datagram that is not ASCII the loop still runs, the     *)
(* snapshot is the one from before, and the datagrams that follow are      *)
(* handed to their handlers, so that each snapshot is the parse of the     *)
(* last well-formed datagram of its device.                                *)
(***************************************************************************)
C19_ReceiveLoopResilient ==
  /\ stateLoop = "recv"
  /\ \A d \in Tellos :
       IF lastGood[d] = NoLine
         THEN DOMAIN state[d] = {}
         ELSE state[d] = ParseState(lastGood[d])

\* the handler raised on a datagram of the device, and the example line
\* that came later is in the snapshot
C19_Witness ==
  /\ rxRaised[Dev]
  /\ lastLine[Dev] = PitchLine
  /\ state[Dev] = PitchSnapshot

(***************************************************************************)
(* C20. len(swarm) and iteration over the swarm give exactly the devices   *)
(* that are connected: a device in unreachable_tellos is neither counted   *)
(* nor yielded.                                                            *)
(***************************************************************************)
ConnectedSet ==
  {d \in Tellos : InList(connected_tellos, d) /\ ~InList(unreachable_tellos, d)}

C20_ViewIsConnectedSet ==
  [][/\ lenResult' # lenResult => lenResult' = Cardinality(ConnectedSet)
     /\ iterResult' # iterResult =>
          /\ \A d \in Tellos : InList(iterResult', d) <=> d \in ConnectedSet
          /\ Len(iterResult') = Cardinality(ConnectedSet)]_vars

(***************************************************************************)
(* C21. Calling an operation the swarm does not define, with arguments,    *)
(* is parallel() of a lambda that calls that operation with those          *)
(* arguments: when the call returns, the operation has been invoked on     *)
(* every connected device exactly once for each call made, with the        *)
(* arguments of that call, and it has returned on every device; while the  *)
(* call runs, the devices are inside the operation at the same time.       *)
(***************************************************************************)
C21_FanOutIsParallel ==
  /\ parPc = "idle" =>
       \A k \in 1..Len(connected_tellos) :
         /\ Len(invoked[connected_tellos[k]]) = parReturned
         /\ wDone[connected_tellos[k]] = parReturned
         /\ parReturned > 0 =>
              invoked[connected_tellos[k]][parReturned] = parFn[Closure]
  /\ \A d \in Tellos : Len(invoked[d]) <= parCalls

C21_Witness ==
  /\ parReturned = 1
  /\ parPc = "exitWait"
  /\ \A d \in Tellos :
       /\ wPc[d] = "call"
       /\ invoked[d] = <<<<"takeoff", <<>>>>, <<"move_up", <<50>>>>>>

(***************************************************************************)
(* C22. sequential(func) calls func on the caller's own thread, on the     *)
(* devices of connected_tellos in index order and one at a time: the       *)
(* first call is for index 0, each call is for the device at the next      *)
(* index, and the call for a device starts only when no call is running,   *)
(* the call before it having returned.                                     *)
(***************************************************************************)
C22_SequentialInOrderNoOverlap ==
  [][/\ (seqPc = "idle" /\ seqPc' # "idle") => (seqPc' = "for" /\ seqIdx' = 1)
     /\ (seqPc' = "func" /\ seqPc # "func") =>
          /\ seqPc = "for"
          /\ seqTello' = connected_tellos[seqIdx]
          /\ seqIdx' = seqIdx + 1
     /\ (seqPc = "func" /\ seqPc' = "func") =>
          (seqTello' = seqTello /\ seqIdx' = seqIdx)
     /\ (seqPc = "func" /\ seqPc' # "func") =>
          \/ seqPc' = "for" /\ seqIdx' = seqIdx
          \/ seqPc' = "idle"]_vars

C22_Witness ==
  /\ seqPc = "func"
  /\ seqIdx = 3
  /\ seqTello = 2
  /\ connected_tellos = <<1, 2>>

(***************************************************************************)
(* C23. parse_state drops a numeric field whose value cannot be converted  *)
(* and nothing else: the snapshot of a line holds every well-formed field  *)
(* of the line, the integer and float fields converted and a field without *)
(* a converter with its raw text, and it holds no malformed field.         *)
(***************************************************************************)
\* the values of the well-formed fields: bat = 88, baro = 1.5, sn = '0TQ'
WellFormedValues ==
  (<<"b", "a", "t">> :> 88) @@ (<<"b", "a", "r", "o">> :> <<"float", <<"1", ".", "5">>>>)
    @@ (<<"s", "n">> :> <<"0", "T", "Q">>)

\* the keys of the fields of a line
KeysOf(line) ==
  LET fields == Split(line, ";")
  IN  {Split(fields[k], ":")[1] :
         k \in {j \in 1..Len(fields) : Len(Split(fields[j], ":")) >= 2}}

C23_MalformedFieldDroppedAlone ==
  parsePc = "done" =>
    /\ DOMAIN parseResult = KeysOf(parseLine) \cap DOMAIN WellFormedValues
    /\ \A key \in DOMAIN parseResult : parseResult[key] = WellFormedValues[key]

\* 'baro:1.5;mid:x;sn:0TQ;' has given baro and sn, without mid
C23_Witness ==
  /\ parsePc = "done"
  /\ parseLine = BaroLine
  /\ DOMAIN parseResult = {<<"b", "a", "r", "o">>, <<"s", "n">>}

(***************************************************************************)
(* C24. When the poll loop of send_command_with_return finds the mailbox   *)
(* non-empty, it takes out exactly one entry, the oldest: what is left is  *)
(* the rest of the mailbox in its order.  The response it returns is the   *)
(* text of that entry without the carriage returns and line feeds at its   *)
(* end, 'OK' for the reply 'OK\r\n'.                                       *)
(***************************************************************************)
C24_PopsOldestAndTrims ==
  [][(ctlPc = "wait" /\ responses[Dev] # <<>> /\ ctlPc' # "wait") =>
       LET oldest == Head(responses[Dev])
       IN  /\ responses'[Dev] = Tail(responses[Dev])
           /\ Decodable(oldest) =>
                /\ response' = RStrip(oldest, {"\r", "\n"})
                /\ response' # <<>> =>
                     response'[Len(response')] \notin {"\r", "\n"}
           /\ oldest = <<"O", "K", "\r", "\n">> => response' = <<"O", "K">>]_vars

\* 'OK\r\n' was taken from a mailbox that held 'error' behind it
C24_Witness ==
  /\ ctlPc = "done"
  /\ response = <<"O", "K">>
  /\ responses[Dev] = << <<"e", "r", "r", "o", "r">> >>

(***************************************************************************)
(* C25. Whenever send_command_with_return transmits a command after a      *)
(* command whose reply was received, at least TIME_BTW_COMMANDS has        *)
(* elapsed since that reply was received.                                  *)
(***************************************************************************)
C25_MinimumSpacing ==
  [][(pacePc = "send" /\ pacePc' = "wait" /\ paceDone > 0) =>
       sinceReceived >= TIME_BTW_COMMANDS]_vars

(***************************************************************************)
(* C26. When a worker starts running func, every worker has taken the func *)
(* of this parallel() call from its queue and the caller of parallel() has *)
(* arrived at the entry barrier, which has N + 1 parties; and no worker    *)
(* starts the func of a later call before every worker has finished the    *)
(* func of the call before.                                                *)
(***************************************************************************)
C26_FanOutBarrier ==
  /\ FuncBarrierParties = NumTellos + 1
  /\ [][\A i \in Tellos :
          (wPc[i] \in {"entry", "entryWait"} /\ wPc'[i] = "run") =>
            /\ parPc \in {"entryWait", "exit", "exitWait"}
            /\ \A j \in Tellos :
                 /\ funcQueues[j] = <<>>
                 /\ wFn[j] = parFn
                 /\ wPc[j] # "get"
                 /\ wDone[j] >= wDone[i]]_vars

\* both workers run the func of the second call
C26_Witness ==
  /\ parCalls = 2
  /\ parReturned = 1
  /\ \A i \in Tellos : wPc[i] = "run" /\ wDone[i] = 1

(***************************************************************************)
(* C27. When end() is called on a device that flies and streams and the    *)
(* land command fails after all its retries, end() goes on to the          *)
(* streamoff command and sends it.                                         *)
(***************************************************************************)
C27_StreamoffAfterFailedLand ==
  [][(endPc = "land" /\ endPc' # "land" /\ ctlResult = "raised" /\ stream_on)
       => (endPc' = "streamoff" /\ command' = StreamoffText)]_vars

(***************************************************************************)
(* C28. send_command_without_return, emergency and reboot transmit one     *)
(* datagram and return without waiting for a reply; send_rc_control does   *)
(* the same when the rc command before it is more than                     *)
(* TIME_BTW_RC_CONTROL_COMMANDS ago and transmits nothing otherwise.  None *)
(* of them changes the mailbox or the time of the last reply.              *)
(***************************************************************************)
C28_FireAndForgetFrame ==
  [][fireCalls' # fireCalls =>
       /\ responses' = responses
       /\ sinceReceived' = sinceReceived
       /\ pacePc' = pacePc
       /\ waited' = waited
       /\ IF fireOp' = "send_rc_control" /\ ~rcElapsed
            THEN fired' = fired
            ELSE /\ Len(fired') = Len(fired) + 1
                 /\ SubSeq(fired', 1, Len(fired)) = fired]_vars

\* the second of two send_rc_control calls in a row sent nothing, with a
\* reply in the mailbox
C28_Witness ==
  /\ fireOp = "send_rc_control"
  /\ fireCalls = 2
  /\ fired = << <<"r", "c", " ", "1", "0", "0", " ", "-", "1", "0", "0", " ",
                  "1", "0", "0", " ", "-", "7">> >>
  /\ ~rcElapsed
  /\ responses[Dev] # <<>>

\* every one of the operations transmits exactly one datagram
C28_AlwaysOneDatagram ==
  [][fireCalls' # fireCalls =>
       /\ responses' = responses
       /\ sinceReceived' = sinceReceived
       /\ Len(fired') = Len(fired) + 1]_vars

(***************************************************************************)
(* C29. When the swarm was given a callback, the callback is invoked for   *)
(* the device whenever the health monitor has moved a device from          *)
(* connected_tellos to unreachable_tellos and whenever the reconnect       *)
(* supervisor has moved a device back to connected_tellos.                 *)
(***************************************************************************)
C29_CallbackOnEveryMove ==
  [][tello_connected_handler # NoHandler =>
       /\ (monPc = "append" /\ monPc' # "append") =>
            (handlerCalls' # handlerCalls /\ InList(handlerCalls', monTello))
       /\ (recPc = "remove" /\ recPc' # "remove") =>
            (handlerCalls' # handlerCalls /\ InList(handlerCalls', recTello))]_vars

(***************************************************************************)
(* C30. The error send_control_command raises when all its attempts have   *)
(* failed carries an attempt count equal to the number of attempts that    *)
(* were transmitted, and the response of the last of them.                 *)
(***************************************************************************)
C30_ErrorCarriesAttempts ==
  (ctlPc = "done" /\ ctlResult = "raised") =>
    /\ tries = sent
    /\ sent > 0 => response # MaxRetriesText

ConstructorHandler(ip) ==
  IF \E d \in Tellos : IpOf(d) = ip
    THEN CHOOSE d \in Tellos : IpOf(d) = ip
    ELSE 0

\* the handler of the last registration made for an IP at a socket
LastRegistered(sock, ip) ==
  LET ks == {k \in 1..Len(registrations) :
               registrations[k][1] = sock /\ registrations[k][2] = ip}
  IN  IF ks = {} THEN ConstructorHandler(ip)
      ELSE registrations[CHOOSE k \in ks : \A j \in ks : j <= k][3]

C32_LastRegistrationWins ==
  [][/\ \A ip \in Ips :
          RecvControl(ip, OkText) =>
            \A d \in Tellos :
              responses'[d] =
                IF LastRegistered("control", ip) = d /\ IpOf(d) = ip
                  THEN Append(responses[d], OkText)
                  ELSE responses[d]
     /\ \A ip \in Ips, data \in StateLines :
          StateDatagram(ip, data) =>
            \A d \in Tellos :
              lastLine'[d] =
                IF LastRegistered("state", ip) = d /\ IpOf(d) = ip
                  THEN data
                  ELSE lastLine[d]
     /\ \A ip \in RegisterIps, fn \in RegisterHandlers :
          /\ registrations' = Append(registrations, <<"control", ip, fn>>) =>
               /\ udp_state_handlers' = udp_state_handlers
               /\ \A other \in Ips \ {ip} :
                    /\ other \in DOMAIN udp_control_handlers'
                         <=> other \in DOMAIN udp_control_handlers
                    /\ other \in DOMAIN udp_control_handlers =>
                         udp_control_handlers'[other] =
                           udp_control_handlers[other]
          /\ registrations' = Append(registrations, <<"state", ip, fn>>) =>
               /\ udp_control_handlers' = udp_control_handlers
               /\ \A other \in Ips \ {ip} :
                    /\ other \in DOMAIN udp_state_handlers'
                         <=> other \in DOMAIN udp_state_handlers
                    /\ other \in DOMAIN udp_state_handlers =>
                         udp_state_handlers'[other] =
                           udp_state_handlers[other]]_vars

\* the receiver of another device and then the device's own receiver were
\* registered for the device's IP; of two datagrams of that IP the one
\* received in between reached nobody and the one received afterwards
\* reached the device
C32_Witness ==
  /\ registrations = << <<"control", IpOf(Dev), CHOOSE d \in Tellos : d # Dev>>,
                        <<"control", IpOf(Dev), Dev>> >>
  /\ received = << <<IpOf(Dev), OkText>>, <<IpOf(Dev), OkText>> >>
  /\ responses[Dev] = <<OkText>>
  /\ \A d \in Tellos \ {Dev} : responses[d] = <<>>

(***************************************************************************)
(* C33. The response send_command_with_return returns for a command is the *)
(* reply to that command, received after the command was transmitted:      *)
(* never the late reply to an earlier command whose wait has timed out,    *)
(* nor the reply to a command sent with send_command_without_return.       *)
(***************************************************************************)
C33_ReplyAnswersItsCommand ==
  returned[2] # TimedOut => returned[2] = returned[1]

(***************************************************************************)
(* C34. send_control_command returns True only on taking out of the        *)
(* mailbox a reply whose text contains 'ok': an attempt whose wait timed   *)
(* out never makes the call succeed, whatever the text of the command.     *)
(***************************************************************************)
C34_SuccessNeedsOkReply ==
  [][(ctlResult # "true" /\ ctlResult' = "true") =>
       /\ responses[Dev] # <<>>
       /\ responses'[Dev] = Tail(responses[Dev])
       /\ Decodable(Head(responses[Dev]))
       /\ IsOk(DecodeResponse(Head(responses[Dev])))]_vars

(***************************************************************************)
(* C35. send_read_command returns a value only when a reply was taken out  *)
(* of the mailbox: when the wait timed out it does not return the abort    *)
(* text to its caller as if the device had answered.                       *)
(***************************************************************************)
C35_ReadReturnsOnlyReplies ==
  (readPc = "done" /\ readResult = "returned") => readReply # NoReply

(***************************************************************************)
(* C36. When two threads are inside send_command_with_return of the same   *)
(* device, every reply delivered to the mailbox is taken by at most one of *)
(* them, and neither fails by taking an entry out of an empty mailbox.     *)
(***************************************************************************)
C36_NoCheckThenPopRace ==
  /\ \A t \in Callers, u \in Callers : t # u => taken[t] \cap taken[u] = {}
  /\ \A t \in Callers : callPc[t] # "raised" /\ callGot[t] # IndexError

(***************************************************************************)
(* C37. A connected device that has stopped sending telemetry, its last    *)
(* line having left a non-empty snapshot, is eventually moved to           *)
(* unreachable_tellos by the health monitor.                               *)
(***************************************************************************)
C37_SilentDeviceBecomesUnreachable ==
  \A d \in Tellos :
    (d \in silent /\ ~IsUnreachable(d) /\ InList(connected_tellos, d))
      ~> InList(unreachable_tellos, d)

(***************************************************************************)
(* C38. A sync(timeout) that times out does not disable the barrier for    *)
(* good: in a parallel() call after the one in which it timed out, whose   *)
(* swarm function calls sync() the same number of times on every device,   *)
(* the sync() calls wait for one another and are released, and none of     *)
(* them fails with BrokenBarrierError.                                     *)
(***************************************************************************)
C38_TimeoutDoesNotDisableBarrier ==
  (timedOutAt # 0 /\ parCalls > timedOutAt /\ Uniform(parFn)) =>
    \A i \in Tellos : syncErrAt[i] # parCalls

====
